---- MODULE Spec2Model ----
(***************************************************************************)
(* A model of the Go-Future library: the CompletableFuture completion      *)
(* state machine (future/cf.go), the chaining operators built on it and    *)
(* the bounded executor (pool/pool.go).                                    *)
(*                                                                         *)
(* Every goroutine is a thread of the model.  A thread runs a program, a   *)
(* sequence of calls of the library's API; a call in progress is a frame   *)
(* on the thread's stack, and a call made from inside another call (a      *)
(* continuation run inline by finishCompletion, a Complete made by a       *)
(* continuation) is a frame pushed above it.  One action of the model is   *)
(* one step of the code between two points at which another goroutine can *)
(* observe or change the shared fields.                                    *)
(***************************************************************************)
EXTENDS Integers, Sequences, FiniteSets, TLC

\* ------------------------------------------------------------------ bounds

NumThreads == 3   \* goroutines of a result-cell scenario
NumVals == 2      \* distinct non-zero values a Complete call may supply
MaxLimit == 2     \* largest limit an executor is made with
TasksEach == 2    \* Submit calls each of them makes

\* --------------------------------------------------------------- constants

statePending == 0
stateCompleting == 1
stateDone == 2

Zero == 0                       \* the zero value of T
Nil == "nil"                    \* the nil error, the nil channel
ErrCanceled == "completable future canceled"
ErrTimeout == "completable future timed out"
ErrNilFunction == "function cannot be nil"
ErrUser == "e1"                 \* an error a caller supplies
ErrForced == "e2"               \* an error ObtrudeException is given

Futures == 1 .. 6
Threads == 1 .. NumThreads
Vals == 1 .. NumVals

VARIABLES
  state,        \* f.state
  value,        \* f.value
  err,          \* f.err
  cb0,          \* f.cb0
  cbs,          \* f.cbs
  doneChan,     \* f.doneChan: Nil, "open" or "closed"
  mu,           \* f.mu: 0 when free, else the thread holding it
  hasCancel,    \* f.cancel # nil
  ctxCancelled, \* f.ctx is cancelled
  ctxErr,       \* ctx.Err() of the context the future was made with
  stack,        \* per thread: the frames of the calls in progress
  script,       \* per thread: its program, the calls it makes in order
  results,      \* per thread: what its finished top-level calls returned
  calls,        \* per continuation id: its invocations so far
  fired,        \* per future: continuations fired from the queue, in order
  queued,       \* per future: continuations ever queued, in order
  closes,       \* per future: times close(f.doneChan) ran
  cancelCalls,  \* per future: times f.cancel() ran
  doneOrder,    \* the futures in the order their state became Done
  claims,       \* per destination: the callbacks that won its guard, in order
  doneFlag,     \* per destination: the guard its combinator's callbacks share
  pending,      \* per destination: AllOf's countdown
  sem,          \* len(e.sem): the permits held
  limit,        \* cap(e.sem): the executor's limit
  panicking,    \* per thread: the value of a panic unwinding it, or Nil
  released,     \* per thread: times its deferred <-e.sem ran
  logged        \* the goroutines whose panic the executor recovered and logged

cellVars ==
  <<state, value, err, cb0, cbs, doneChan, mu, hasCancel, ctxCancelled, ctxErr>>
threadVars == <<stack, script, results>>
ghostVars == <<calls, fired, queued, closes, cancelCalls, doneOrder, claims>>
poolVars == <<sem, limit, panicking, released, logged>>
guardVars == <<doneFlag, pending>>
vars == <<cellVars, threadVars, ghostVars, poolVars, guardVars>>

\* ----------------------------------------------------- closures and frames

\* A continuation or task closure: what it is (k), the id it is observed
\* under, the destination future it completes, the user function in it and
\* the future that function returns, if it returns one.
Closure(k, id, dest, fn, rel) ==
  [k |-> k, id |-> id, dest |-> dest, fn |-> fn, rel |-> rel]
NoCb == Closure("nil", 0, 0, "", 0)
Probe(id) == Closure("probe", id, 0, "", 0)

\* A call of the API: op on future f with a value, an error and a closure.
Call(op, f, v, e, cb) == [op |-> op, f |-> f, v |-> v, e |-> e, cb |-> cb]

CallComplete(f, v) == Call("Complete", f, v, Nil, NoCb)
CallCompleteExceptionally(f, e) == Call("CompleteExceptionally", f, Zero, e, NoCb)
CallCancel(f) == Call("Cancel", f, Zero, Nil, NoCb)
CallWhenComplete(f, cb) == Call("whenCompleteInternal", f, Zero, Nil, cb)
CallJoin(f) == Call("Join", f, Zero, Nil, NoCb)
CallGet(f, c) == Call("Get", f, c, Nil, NoCb)
CallObtrudeValue(f, v) == Call("ObtrudeValue", f, v, Nil, NoCb)
CallObtrudeException(f, e) == Call("ObtrudeException", f, Zero, e, NoCb)

FirstPc(op) ==
  CASE op \in {"Complete", "CompleteExceptionally", "Cancel"} -> "cas"
    [] op = "whenCompleteInternal" -> "load"
    [] op \in {"Join", "Get"} -> "load"
    [] op \in {"ResultNow", "ExceptionNow", "GetNow"} -> "load"
    [] op \in {"ObtrudeValue", "ObtrudeException"} -> "lock"
    [] op \in {"ThenApply", "ThenCompose", "WhenComplete"} -> "start"
    [] op = "Submit" -> "acquire"
    [] op \in {"SupplyAsync", "CompleteAsync"} -> "start"
    [] OTHER -> "start"

\* The frame a call starts in: q is finishCompletion's snapshot of the
\* queue (for a combinator, the sources it has yet to subscribe to), ch the
\* channel a Join waits on.
FrameOf(c) ==
  [op |-> c.op, pc |-> FirstPc(c.op), f |-> c.f, v |-> c.v, e |-> c.e,
   cb |-> c.cb, q |-> IF "srcs" \in DOMAIN c THEN c.srcs ELSE <<>>, ch |-> Nil]

Result(op, f, b, v, e) == [op |-> op, f |-> f, b |-> b, v |-> v, e |-> e]

Top(t) == stack[t][Len(stack[t])]
Running(t) == stack[t] # <<>>
At(t, ops, pc) == Running(t) /\ Top(t).op \in ops /\ Top(t).pc = pc
Below(t) == SubSeq(stack[t], 1, Len(stack[t]) - 1)

\* The top frame moves on / is replaced by a call made in tail position /
\* gets a call pushed above it.
SetTop(t, fr) ==
  /\ stack' = [stack EXCEPT ![t] = Append(Below(t), fr)]
  /\ UNCHANGED <<script, results>>
Push(t, fr, callee) ==
  /\ stack' = [stack EXCEPT ![t] = Append(Append(Below(t), fr), callee)]
  /\ UNCHANGED <<script, results>>

\* The top frame returns r: to the frame below, or, for a call of the
\* program, into results, and the program's next call starts.
StackAfterReturn(t) ==
  IF Len(stack[t]) > 1 THEN Below(t)
  ELSE IF Len(results[t]) + 1 < Len(script[t])
    THEN <<FrameOf(script[t][Len(results[t]) + 2])>>
    ELSE <<>>

ResultsAfterReturn(t, r) ==
  IF Len(stack[t]) > 1 THEN results ELSE [results EXCEPT ![t] = Append(@, r)]

\* v, err := f.Join() inside biApply's task: the frame the Join returns
\* to keeps the value and the error.
Deliver(t, s, r) ==
  IF Len(stack[t]) > 1 /\ s[Len(s)].op = "biApply" /\ r.op = "Join"
    THEN [s EXCEPT ![Len(s)].q = Append(@, r.v), ![Len(s)].e = r.e]
    ELSE s

Return(t, r) ==
  /\ script' = script
  /\ results' = ResultsAfterReturn(t, r)
  /\ stack' = [stack EXCEPT ![t] = Deliver(t, StackAfterReturn(t), r)]

\* ------------------------------------- Complete / CompleteExceptionally / Cancel

CompletionOps == {"Complete", "CompleteExceptionally", "Cancel"}

\* A compare-and-swap that only refuses a Done future: a second caller gets
\* in while the first is still Completing.
CasWinsUnlessDone(s) == s # stateDone

\* atomic.CompareAndSwapInt32(&f.state, statePending, stateCompleting)
CasWins(s) == s = statePending

CompleteCas(t) ==
  /\ At(t, CompletionOps, "cas")
  /\ LET fr == Top(t) IN
       IF CasWins(state[fr.f])
         THEN /\ state' = [state EXCEPT ![fr.f] = stateCompleting]
              /\ SetTop(t, [fr EXCEPT !.pc = "write"])
         ELSE /\ state' = state
              /\ Return(t, Result(fr.op, fr.f, FALSE, fr.v, fr.e))
  /\ UNCHANGED <<value, err, cb0, cbs, doneChan, mu, hasCancel, ctxErr,
                 ctxCancelled, ghostVars, poolVars,
                 guardVars>>

\* f.value = val / f.err = err / f.err = ErrCanceled
CompleteWrite(t) ==
  /\ At(t, CompletionOps, "write")
  /\ LET fr == Top(t) IN
       /\ value' = IF fr.op = "Complete" THEN [value EXCEPT ![fr.f] = fr.v] ELSE value
       /\ err' = CASE fr.op = "Complete" -> err
                   [] fr.op = "CompleteExceptionally" -> [err EXCEPT ![fr.f] = fr.e]
                   [] fr.op = "Cancel" -> [err EXCEPT ![fr.f] = ErrCanceled]
       /\ SetTop(t, [fr EXCEPT !.pc = IF fr.op = "Cancel" THEN "cancelfn" ELSE "store"])
  /\ UNCHANGED <<state, cb0, cbs, doneChan, mu, hasCancel, ctxErr,
                 ctxCancelled, ghostVars, poolVars,
                 guardVars>>

\* if f.cancel != nil { f.cancel() }
CancelSignal(t) ==
  /\ At(t, {"Cancel"}, "cancelfn")
  /\ LET fr == Top(t) IN
       /\ IF hasCancel[fr.f]
            THEN /\ ctxCancelled' = [ctxCancelled EXCEPT ![fr.f] = TRUE]
                 /\ cancelCalls' = [cancelCalls EXCEPT ![fr.f] = @ + 1]
            ELSE UNCHANGED <<ctxCancelled, cancelCalls>>
       /\ SetTop(t, [fr EXCEPT !.pc = "store"])
  /\ UNCHANGED <<state, value, err, cb0, cbs, doneChan, mu, hasCancel,
                 ctxErr, calls, fired, queued, closes, poolVars,
                 doneOrder, claims, guardVars>>

\* The record of the order in which futures became Done, once f's state is
\* stored as Done.
BecameDone(f) ==
  IF \E i \in 1 .. Len(doneOrder) : doneOrder[i] = f
    THEN doneOrder ELSE Append(doneOrder, f)

\* finishCompletion: atomic.StoreInt32(&f.state, stateDone)
FinishStore(t) ==
  /\ At(t, CompletionOps, "store")
  /\ LET fr == Top(t) IN
       /\ state' = [state EXCEPT ![fr.f] = stateDone]
       /\ doneOrder' = BecameDone(fr.f)
       /\ SetTop(t, [fr EXCEPT !.pc = "lock"])
  /\ UNCHANGED <<value, err, cb0, cbs, doneChan, mu, hasCancel, ctxErr,
                 ctxCancelled, calls, fired, queued, closes, cancelCalls, claims, poolVars,
                 guardVars>>

\* The snapshot fired slice first, cb0 last.
DrainOrderCbsFirst(c0, cs) == cs \o (IF c0 = NoCb THEN <<>> ELSE <<c0>>)

\* The order finishCompletion fires its snapshot in: cb0, then cbs.
DrainOrder(c0, cs) == (IF c0 = NoCb THEN <<>> ELSE <<c0>>) \o cs

\* finishCompletion's critical section: close the channel if there is one,
\* snapshot and clear the queue.
FinishLocked(t) ==
  /\ At(t, CompletionOps, "lock")
  /\ LET fr == Top(t) IN
       /\ mu[fr.f] = 0
       /\ IF doneChan[fr.f] # Nil
            THEN /\ doneChan' = [doneChan EXCEPT ![fr.f] = "closed"]
                 /\ closes' = [closes EXCEPT ![fr.f] = @ + 1]
            ELSE UNCHANGED <<doneChan, closes>>
       /\ cb0' = [cb0 EXCEPT ![fr.f] = NoCb]
       /\ cbs' = [cbs EXCEPT ![fr.f] = <<>>]
       /\ SetTop(t, [fr EXCEPT !.pc = "fire", !.q = DrainOrder(cb0[fr.f], cbs[fr.f])])
  /\ UNCHANGED <<state, value, err, mu, hasCancel, ctxErr, ctxCancelled,
                 calls, fired, queued, cancelCalls, poolVars,
                 doneOrder, claims, guardVars>>

\* The frame of cb(val, err).
InvokeFrame(cb, v, e) ==
  [op |-> "invoke", pc |-> "body", f |-> 0, v |-> v, e |-> e,
   cb |-> cb, q |-> <<>>, ch |-> Nil]

\* finishCompletion's loop: cb(f.value, f.err) for the next of the
\* snapshot, or, the snapshot exhausted, the completion call returns true.
FinishFire(t) ==
  /\ At(t, CompletionOps, "fire")
  /\ LET fr == Top(t) IN
       IF fr.q = <<>>
         THEN /\ Return(t, Result(fr.op, fr.f, TRUE, fr.v, fr.e))
              /\ fired' = fired
         ELSE /\ Push(t, [fr EXCEPT !.q = Tail(@)],
                      InvokeFrame(Head(fr.q), value[fr.f], err[fr.f]))
              /\ fired' = [fired EXCEPT ![fr.f] = Append(@, Head(fr.q).id)]
  /\ UNCHANGED <<cellVars, calls, queued, closes, cancelCalls, poolVars,
                 doneOrder, claims, guardVars>>

\* ------------------------------------------------------ whenCompleteInternal

\* whenCompleteInternal's first, lock-free look at the state.
RegisterLoad(t) ==
  /\ At(t, {"whenCompleteInternal"}, "load")
  /\ LET fr == Top(t) IN
       IF state[fr.f] = stateDone
         THEN SetTop(t, InvokeFrame(fr.cb, value[fr.f], err[fr.f]))
         ELSE SetTop(t, [fr EXCEPT !.pc = "lock"])
  /\ UNCHANGED <<cellVars, ghostVars, poolVars,
                 guardVars>>

\* No second look: whatever got past the first one is queued.
LockedSeesDoneNever(s) == FALSE

\* The second look, under f.mu.
LockedSeesDone(s) == s = stateDone

\* whenCompleteInternal's critical section: Done now, so unlock and run
\* inline; else store in cb0, or append to cbs.
RegisterLocked(t) ==
  /\ At(t, {"whenCompleteInternal"}, "lock")
  /\ LET fr == Top(t) IN
       /\ mu[fr.f] = 0
       /\ IF LockedSeesDone(state[fr.f])
            THEN /\ SetTop(t, [fr EXCEPT !.pc = "inline"])
                 /\ UNCHANGED <<cb0, cbs, queued>>
            ELSE /\ IF cb0[fr.f] = NoCb
                      THEN cb0' = [cb0 EXCEPT ![fr.f] = fr.cb] /\ cbs' = cbs
                      ELSE cbs' = [cbs EXCEPT ![fr.f] = Append(@, fr.cb)] /\ cb0' = cb0
                 /\ queued' = [queued EXCEPT ![fr.f] = Append(@, fr.cb.id)]
                 /\ Return(t, Result(fr.op, fr.f, TRUE, Zero, Nil))
  /\ UNCHANGED <<state, value, err, doneChan, mu, hasCancel, ctxErr,
                 ctxCancelled, calls, fired, closes, cancelCalls, poolVars,
                 doneOrder, claims, guardVars>>

\* cb(f.value, f.err) after the unlock.
RegisterInline(t) ==
  /\ At(t, {"whenCompleteInternal"}, "inline")
  /\ LET fr == Top(t) IN
       SetTop(t, InvokeFrame(fr.cb, value[fr.f], err[fr.f]))
  /\ UNCHANGED <<cellVars, ghostVars, poolVars,
                 guardVars>>

\* A continuation that only observes: it records the thread it runs on and
\* the (value, error) it is given.
InvokeProbe(t) ==
  /\ At(t, {"invoke"}, "body")
  /\ Top(t).cb.k = "probe"
  /\ LET fr == Top(t) IN
       /\ calls' = [calls EXCEPT ![fr.cb.id] = Append(@, [t |-> t, v |-> fr.v, e |-> fr.e])]
       /\ Return(t, Result("invoke", 0, TRUE, fr.v, fr.e))
  /\ UNCHANGED <<cellVars, fired, queued, closes, cancelCalls, poolVars,
                 doneOrder, claims, guardVars>>

\* ------------------------------------------------------------------- Join

\* Join and Get(ctx), which differ in how they wait.
WaitOps == {"Join", "Get"}

\* Join's and Get's fast path: Done already, return f.value, f.err.
JoinLoad(t) ==
  /\ At(t, WaitOps, "load")
  /\ LET fr == Top(t) IN
       IF state[fr.f] = stateDone
         THEN Return(t, Result(fr.op, fr.f, TRUE, value[fr.f], err[fr.f]))
         ELSE SetTop(t, [fr EXCEPT !.pc = "getchan"])
  /\ UNCHANGED <<cellVars, ghostVars, poolVars,
                 guardVars>>

\* A channel is made whatever the state.
LazySeesDoneNever(s) == FALSE

\* getDoneChanLazy's look at the state once it finds no channel.
LazySeesDone(s) == s = stateDone

\* getDoneChanLazy, under f.mu: the channel there is, else the shared
\* closed channel if Done, else a channel made now.
GetDoneChanLazy(t) ==
  /\ At(t, WaitOps, "getchan")
  /\ LET fr == Top(t) IN
       /\ mu[fr.f] = 0
       /\ IF doneChan[fr.f] # Nil
            THEN /\ SetTop(t, [fr EXCEPT !.pc = "wait", !.ch = "own"])
                 /\ doneChan' = doneChan
            ELSE IF LazySeesDone(state[fr.f])
              THEN /\ SetTop(t, [fr EXCEPT !.pc = "wait", !.ch = "closedChan"])
                   /\ doneChan' = doneChan
              ELSE /\ SetTop(t, [fr EXCEPT !.pc = "wait", !.ch = "own"])
                   /\ doneChan' = [doneChan EXCEPT ![fr.f] = "open"]
  /\ UNCHANGED <<state, value, err, cb0, cbs, mu, hasCancel, ctxErr,
                 ctxCancelled, ghostVars, poolVars,
                 guardVars>>

\* Whether a receive from the channel a frame holds can proceed.
ChanClosed(fr) == fr.ch = "closedChan" \/ (fr.ch = "own" /\ doneChan[fr.f] = "closed")

\* <-ch, and Get's case <-f.getDoneChanLazy()
JoinWait(t) ==
  /\ At(t, WaitOps, "wait")
  /\ ChanClosed(Top(t))
  /\ SetTop(t, [Top(t) EXCEPT !.pc = "read"])
  /\ UNCHANGED <<cellVars, ghostVars, poolVars,
                 guardVars>>

\* return f.value, f.err
JoinRead(t) ==
  /\ At(t, WaitOps, "read")
  /\ LET fr == Top(t) IN
       Return(t, Result(fr.op, fr.f, TRUE, value[fr.f], err[fr.f]))
  /\ UNCHANGED <<cellVars, ghostVars, poolVars,
                 guardVars>>

\* A context that always looks done, and one that never does.
CtxIsDoneAlways(c) == TRUE
CtxIsDoneNever(c) == FALSE

\* ctx.Err() != nil, <-ctx.Done() can proceed: the context of slot c is done.
CtxIsDone(c) == ctxErr[c] # Nil

\* Get's case <-ctx.Done(): return zero, ctx.Err().  The call carries in v
\* the slot whose context it was given.
GetCtxDone(t) ==
  /\ At(t, {"Get"}, "wait")
  /\ CtxIsDone(Top(t).v)
  /\ Return(t, Result("Get", Top(t).f, FALSE, Zero, ctxErr[Top(t).v]))
  /\ UNCHANGED <<cellVars, ghostVars, poolVars, guardVars>>

\* ------------------------------------------- ResultNow / ExceptionNow / GetNow

AccessOps == {"ResultNow", "ExceptionNow", "GetNow"}
CallResultNow(f) == Call("ResultNow", f, Zero, Nil, NoCb)
CallExceptionNow(f) == Call("ExceptionNow", f, Zero, Nil, NoCb)
CallGetNow(f, d) == Call("GetNow", f, d, Nil, NoCb)

\* An accessor's result: it returned (v, e), or it panicked with msg.
Returned(fr, v, e) == Result(fr.op, fr.f, TRUE, v, e)
Panicked(fr, msg) == Result(fr.op, fr.f, FALSE, Zero, msg)

\* An accessor that takes every state for Done.
NotCompletedNever(s) == FALSE

\* atomic.LoadInt32(&f.state) != stateDone
NotCompleted(s) == s # stateDone

\* The accessor's look at the state: not Done, ResultNow and ExceptionNow
\* panic and GetNow returns valueIfAbsent, nil.
AccessLoad(t) ==
  /\ At(t, AccessOps, "load")
  /\ LET fr == Top(t) IN
       IF ~NotCompleted(state[fr.f])
         THEN SetTop(t, [fr EXCEPT !.pc = "read"])
         ELSE IF fr.op = "GetNow"
           THEN Return(t, Returned(fr, fr.v, Nil))
           ELSE Return(t, Panicked(fr, "Future not completed"))
  /\ UNCHANGED <<cellVars, ghostVars, poolVars, guardVars>>

\* The first read after the load saw Done: ResultNow and ExceptionNow test
\* f.err and panic on the wrong kind of outcome, GetNow reads f.value.
AccessRead(t) ==
  /\ At(t, AccessOps, "read")
  /\ LET fr == Top(t) IN
       CASE fr.op = "ResultNow" ->
              IF err[fr.f] # Nil
                THEN Return(t, Panicked(fr, "Future completed exceptionally: " \o err[fr.f]))
                ELSE SetTop(t, [fr EXCEPT !.pc = "return"])
         [] fr.op = "ExceptionNow" ->
              IF err[fr.f] = Nil
                THEN Return(t, Panicked(fr, "Future completed normally"))
                ELSE SetTop(t, [fr EXCEPT !.pc = "return"])
         [] fr.op = "GetNow" ->
              SetTop(t, [fr EXCEPT !.pc = "return", !.v = value[fr.f]])
  /\ UNCHANGED <<cellVars, ghostVars, poolVars, guardVars>>

\* The read the accessor returns: f.value, f.err, or both (GetNow has read
\* f.value already).
AccessReturn(t) ==
  /\ At(t, AccessOps, "return")
  /\ LET fr == Top(t) IN
       CASE fr.op = "ResultNow" -> Return(t, Returned(fr, value[fr.f], Nil))
         [] fr.op = "ExceptionNow" -> Return(t, Returned(fr, Zero, err[fr.f]))
         [] fr.op = "GetNow" -> Return(t, Returned(fr, fr.v, err[fr.f]))
  /\ UNCHANGED <<cellVars, ghostVars, poolVars, guardVars>>

\* ------------------------------------------- the result cell under races

\* The future the scenarios of the result cell are about.
Cell == 1

\* The calls a thread of the scenario may make on it.
CellMenu(t) ==
  <<CallCompleteExceptionally(Cell, ErrUser), CallCancel(Cell),
    CallWhenComplete(Cell, Probe(t)), CallJoin(Cell)>>
  \o [i \in 1 .. NumVals |-> CallComplete(Cell, i)]

\* New(): Pending, no value, no error, no continuation, no channel, and
\* (the parent being context.Background()) no cancel function.
NewFuture ==
  /\ state = [f \in Futures |-> statePending]
  /\ value = [f \in Futures |-> Zero]
  /\ err = [f \in Futures |-> Nil]
  /\ cb0 = [f \in Futures |-> NoCb]
  /\ cbs = [f \in Futures |-> <<>>]
  /\ doneChan = [f \in Futures |-> Nil]
  /\ mu = [f \in Futures |-> 0]
  /\ ctxCancelled = [f \in Futures |-> FALSE]
  /\ ctxErr = [f \in Futures |-> Nil]

\* No executor is in play.
NoPool ==
  /\ sem = 0
  /\ limit = 0
  /\ panicking = <<>>
  /\ released = <<>>
  /\ logged = {}

\* No combinator has made a guard or a countdown.
NoGuard ==
  /\ doneFlag = [f \in Futures |-> 0]
  /\ pending = [f \in Futures |-> 0]

NoHistory ==
  /\ calls = [i \in 1 .. NumThreads |-> <<>>]
  /\ fired = [f \in Futures |-> <<>>]
  /\ queued = [f \in Futures |-> <<>>]
  /\ closes = [f \in Futures |-> 0]
  /\ cancelCalls = [f \in Futures |-> 0]
  /\ doneOrder = <<>>
  /\ claims = [f \in Futures |-> <<>>]
  /\ NoGuard

\* Each thread makes one call of the menu; threads being interchangeable,
\* the choices are taken in non-decreasing order.
Init ==
  /\ NewFuture
  /\ hasCancel \in [Futures -> BOOLEAN]
  /\ \A f \in Futures \ {Cell} : ~hasCancel[f]
  /\ NoHistory
  /\ NoPool
  /\ \E pick \in [Threads -> 1 .. (4 + NumVals)] :
       /\ \A t \in Threads : t > 1 => pick[t - 1] <= pick[t]
       /\ script = [t \in Threads |-> <<CellMenu(t)[pick[t]]>>]
  /\ stack = [t \in Threads |-> <<FrameOf(script[t][1])>>]
  /\ results = [t \in Threads |-> <<>>]

Next ==
  \E t \in Threads :
    \/ CompleteCas(t)
    \/ CompleteWrite(t)
    \/ CancelSignal(t)
    \/ FinishStore(t)
    \/ FinishLocked(t)
    \/ FinishFire(t)
    \/ RegisterLoad(t)
    \/ RegisterLocked(t)
    \/ RegisterInline(t)
    \/ InvokeProbe(t)
    \/ JoinLoad(t)
    \/ GetDoneChanLazy(t)
    \/ JoinWait(t)
    \/ JoinRead(t)

Spec == Init /\ [][Next]_vars

\* IsCancelled and IsCompletedExceptionally: Done, and the error is
\* ErrCanceled, or is an error other than ErrCanceled.
IsCancelled(f) == state[f] = stateDone /\ err[f] = ErrCanceled
IsCompletedExceptionally(f) ==
  state[f] = stateDone /\ err[f] # Nil /\ err[f] # ErrCanceled

\* ------------------------------------------- ObtrudeValue / ObtrudeException

ObtrudeOps == {"ObtrudeValue", "ObtrudeException"}

\* A forced overwrite that stores no error.
ForcedWithoutError(op, v, e) == <<v, Nil>>

\* What a forced overwrite stores: ObtrudeValue(val) the value and a nil
\* error, ObtrudeException(err) the zero value and the error.
ForcedOutcome(op, v, e) == IF op = "ObtrudeValue" THEN <<v, Nil>> ELSE <<Zero, e>>

\* f.mu.Lock(); f.value = val (ObtrudeException: f.value = zero)
ObtrudeLock(t) ==
  /\ At(t, ObtrudeOps, "lock")
  /\ LET fr == Top(t) IN
       /\ mu[fr.f] = 0
       /\ mu' = [mu EXCEPT ![fr.f] = t]
       /\ value' = [value EXCEPT ![fr.f] = ForcedOutcome(fr.op, fr.v, fr.e)[1]]
       /\ SetTop(t, [fr EXCEPT !.pc = "err"])
  /\ UNCHANGED <<state, err, cb0, cbs, doneChan, hasCancel, ctxErr,
                 ctxCancelled, ghostVars, poolVars,
                 guardVars>>

\* f.err = nil (ObtrudeException: f.err = err)
ObtrudeErr(t) ==
  /\ At(t, ObtrudeOps, "err")
  /\ LET fr == Top(t) IN
       /\ err' = [err EXCEPT ![fr.f] = ForcedOutcome(fr.op, fr.v, fr.e)[2]]
       /\ SetTop(t, [fr EXCEPT !.pc = "store"])
  /\ UNCHANGED <<state, value, cb0, cbs, doneChan, mu, hasCancel, ctxErr,
                 ctxCancelled, ghostVars, poolVars,
                 guardVars>>

\* atomic.StoreInt32(&f.state, stateDone), and the deferred f.mu.Unlock()
ObtrudeStore(t) ==
  /\ At(t, ObtrudeOps, "store")
  /\ LET fr == Top(t) IN
       /\ state' = [state EXCEPT ![fr.f] = stateDone]
       /\ mu' = [mu EXCEPT ![fr.f] = 0]
       /\ doneOrder' = BecameDone(fr.f)
       /\ Return(t, Result(fr.op, fr.f, TRUE, fr.v, fr.e))
  /\ UNCHANGED <<value, err, cb0, cbs, doneChan, hasCancel, ctxErr,
                 ctxCancelled, calls, fired, queued, closes, cancelCalls, claims, poolVars,
                 guardVars>>

\* The calls of the result-cell scenario, and the two forced overwrites.
ObtrudeMenu(t) ==
  CellMenu(t) \o <<CallObtrudeValue(Cell, NumVals), CallObtrudeException(Cell, ErrForced)>>

InitObtrude ==
  /\ NewFuture
  /\ hasCancel = [f \in Futures |-> FALSE]
  /\ NoHistory
  /\ NoPool
  /\ \E pick \in [Threads -> 1 .. (6 + NumVals)] :
       /\ \A t \in Threads : t > 1 => pick[t - 1] <= pick[t]
       /\ script = [t \in Threads |-> <<ObtrudeMenu(t)[pick[t]]>>]
  /\ stack = [t \in Threads |-> <<FrameOf(script[t][1])>>]
  /\ results = [t \in Threads |-> <<>>]

NextObtrude ==
  \E t \in Threads :
    \/ CompleteCas(t)
    \/ CompleteWrite(t)
    \/ CancelSignal(t)
    \/ FinishStore(t)
    \/ FinishLocked(t)
    \/ FinishFire(t)
    \/ RegisterLoad(t)
    \/ RegisterLocked(t)
    \/ RegisterInline(t)
    \/ InvokeProbe(t)
    \/ JoinLoad(t)
    \/ GetDoneChanLazy(t)
    \/ JoinWait(t)
    \/ JoinRead(t)
    \/ ObtrudeLock(t)
    \/ ObtrudeErr(t)
    \/ ObtrudeStore(t)

SpecObtrude == InitObtrude /\ [][NextObtrude]_vars

\* ------------------------------- ThenApply / ThenCompose / WhenComplete

ChainOps == {"ThenApply", "ThenCompose", "WhenComplete"}

\* The operators that share uniApply's body: ThenApplyAsync is uniApply
\* with async = true.
UniOps == ChainOps \cup {"ThenApplyAsync"}

\* The execTask closure each operator builds around its user function.
ExecTaskKind(op) ==
  CASE op = "ThenApply" -> "apply"
    [] op = "ThenCompose" -> "compose"
    [] op = "WhenComplete" -> "when"
    [] op = "ThenApplyAsync" -> "applyAsync"
    [] op = "Exceptionally" -> "exceptionally"
    [] op = "Handle" -> "handle"

\* op(src, fn) with destination dest := New(); rel is the future fn returns.
CallChain(op, src, dest, fn, rel) ==
  Call(op, src, Zero, Nil, Closure(ExecTaskKind(op), dest, dest, fn, rel))

\* A user function applied to v: whether it panics (and with what), else
\* what it returns.
UserFn(fn, v) ==
  CASE fn = "inc" -> [panics |-> FALSE, msg |-> "", val |-> v + 1]
    [] fn = "boom" -> [panics |-> TRUE, msg |-> "boom", val |-> Zero]
    [] fn = "one" -> [panics |-> FALSE, msg |-> "", val |-> 1]
    [] fn = "add" -> [panics |-> FALSE, msg |-> "", val |-> v[1] + v[2]]
    [] OTHER -> [panics |-> FALSE, msg |-> "", val |-> v]

\* A safecall that recovers the panic and forgets to set err.
SafecallDropsPanic(out) == <<out.val, Nil>>

\* safecall: (fn(), nil), or (zero, fmt.Errorf("panic: %v", r)) when fn
\* panics with r.
Safecall(out) ==
  IF out.panics THEN <<Zero, "panic: " \o out.msg>> ELSE <<out.val, Nil>>

\* if src.IsDone() { ... } else { src.whenCompleteInternal(execTask) }
ChainStart(t) ==
  /\ At(t, UniOps, "start")
  /\ LET fr == Top(t) IN
       IF state[fr.f] = stateDone
         THEN SetTop(t, [fr EXCEPT !.pc = "fast"])
         ELSE SetTop(t, FrameOf(CallWhenComplete(fr.f, fr.cb)))
  /\ UNCHANGED <<cellVars, ghostVars, poolVars,
                 guardVars>>

\* The arguments of the fast path's call: a source that failed hands on the
\* zero value and no error.
FastArgsDropError(f) == <<value[f], Nil>>

\* The arguments of the fast path's call: execTask(src.value, src.err).
FastArgs(f) == <<value[f], err[f]>>

ChainFast(t) ==
  /\ At(t, UniOps, "fast")
  /\ LET fr == Top(t) IN
       SetTop(t, InvokeFrame(fr.cb, FastArgs(fr.f)[1], FastArgs(fr.f)[2]))
  /\ UNCHANGED <<cellVars, ghostVars, poolVars,
                 guardVars>>

\* dest.CompleteExceptionally(e) if e is an error, else dest.Complete(v),
\* as the last thing the running closure does.
TailComplete(t, dest, v, e) ==
  SetTop(t, FrameOf(IF e # Nil THEN CallCompleteExceptionally(dest, e)
                               ELSE CallComplete(dest, v)))

\* The user function of closure cb ran on thread t with (v, e).
Observed(cb, t, v, e) ==
  calls' = [calls EXCEPT ![cb.id] = Append(@, [t |-> t, v |-> v, e |-> e])]

\* uniApply's execTask, not async: forward the error, else complete dest
\* with safecall(fn(val)).
InvokeApply(t) ==
  /\ At(t, {"invoke"}, "body")
  /\ Top(t).cb.k = "apply"
  /\ LET fr == Top(t)
         r == Safecall(UserFn(fr.cb.fn, fr.v))
     IN IF fr.e # Nil
          THEN TailComplete(t, fr.cb.dest, Zero, fr.e) /\ calls' = calls
          ELSE TailComplete(t, fr.cb.dest, r[1], r[2]) /\ Observed(fr.cb, t, fr.v, fr.e)
  /\ UNCHANGED <<cellVars, fired, queued, closes, cancelCalls, poolVars,
                 doneOrder, claims, guardVars>>

\* uniCompose's execTask, not async: forward the error; else call fn, whose
\* panic or nil result fails dest, and go on with the future it returns.
InvokeCompose(t) ==
  /\ At(t, {"invoke"}, "body")
  /\ Top(t).cb.k = "compose"
  /\ LET fr == Top(t) IN
       IF fr.e # Nil
         THEN TailComplete(t, fr.cb.dest, Zero, fr.e) /\ calls' = calls
         ELSE /\ Observed(fr.cb, t, fr.v, fr.e)
              /\ CASE fr.cb.fn = "boom" ->
                        TailComplete(t, fr.cb.dest, Zero, "panic in ThenCompose: " \o "boom")
                   [] fr.cb.fn = "nilrelay" ->
                        TailComplete(t, fr.cb.dest, Zero, ErrNilFunction)
                   [] OTHER ->
                        SetTop(t, [fr EXCEPT !.op = "relay", !.pc = "isdone", !.f = fr.cb.rel])
  /\ UNCHANGED <<cellVars, fired, queued, closes, cancelCalls, poolVars,
                 doneOrder, claims, guardVars>>

\* if relay.IsDone() { ... } else { relay.whenCompleteInternal(...) }
RelayIsDone(t) ==
  /\ At(t, {"relay"}, "isdone")
  /\ LET fr == Top(t) IN
       IF state[fr.f] = stateDone
         THEN SetTop(t, [fr EXCEPT !.pc = "fast"])
         ELSE SetTop(t, FrameOf(CallWhenComplete(fr.f,
                Closure("relay", fr.cb.id, fr.cb.dest, "", fr.f))))
  /\ UNCHANGED <<cellVars, ghostVars, poolVars,
                 guardVars>>

\* v, e := relay.value, relay.err, and dest completed with them
RelayFast(t) ==
  /\ At(t, {"relay"}, "fast")
  /\ LET fr == Top(t) IN
       TailComplete(t, fr.cb.dest, value[fr.f], err[fr.f])
  /\ UNCHANGED <<cellVars, ghostVars, poolVars,
                 guardVars>>

\* The continuation uniCompose puts on a pending relay.
InvokeRelay(t) ==
  /\ At(t, {"invoke"}, "body")
  /\ Top(t).cb.k = "relay"
  /\ LET fr == Top(t) IN TailComplete(t, fr.cb.dest, fr.v, fr.e)
  /\ UNCHANGED <<cellVars, ghostVars, poolVars,
                 guardVars>>

\* A recover that turns the action's panic into the destination's failure.
SwallowAsFailure(out, v, e) ==
  IF out.panics THEN <<Zero, "panic: " \o out.msg>> ELSE <<v, e>>

\* func() { defer func() { recover() }(); action(val, err) }(): whatever
\* the action did, what is handed on is the source's own (val, err).
Swallow(out, v, e) == <<v, e>>

\* uniWhenComplete's execTask, not async: action(val, err) with its panic
\* swallowed, then dest completed with the source's own outcome.
InvokeWhen(t) ==
  /\ At(t, {"invoke"}, "body")
  /\ Top(t).cb.k = "when"
  /\ LET fr == Top(t)
         r == Swallow(UserFn(fr.cb.fn, fr.v), fr.v, fr.e)
     IN /\ Observed(fr.cb, t, fr.v, fr.e)
        /\ TailComplete(t, fr.cb.dest, r[1], r[2])
  /\ UNCHANGED <<cellVars, fired, queued, closes, cancelCalls, poolVars,
                 doneOrder, claims, guardVars>>

\* Two copies of one chain, made one after the other by one goroutine.
\* Side A completes its source and then chains onto it; side B chains onto
\* its pending source and then completes it.  A second goroutine completes
\* the futures a ThenCompose function returns, at any time.
SrcA == 1
DestA == 2
RelayA == 3
SrcB == 4
DestB == 5
RelayB == 6

\* The chaining goroutine and the one completing the returned futures.
ChainThreads == {1, 2}

\* The user functions an operator may be given.
ChainFns(op) ==
  CASE op = "ThenApply" -> {"inc", "boom"}
    [] op = "ThenCompose" -> {"relay", "nilrelay", "boom"}
    [] op = "WhenComplete" -> {"noop", "boom"}

\* The ways a future may be completed.
Outcomes(f) ==
  {CallComplete(f, v) : v \in Vals}
    \cup {CallCompleteExceptionally(f, ErrUser), CallCancel(f)}

\* The same completion call on another future.
OnFuture(c, f) == [c EXCEPT !.f = f]

InitChain ==
  /\ NewFuture
  /\ hasCancel = [f \in Futures |-> FALSE]
  /\ calls = [i \in Futures |-> <<>>]
  /\ fired = [f \in Futures |-> <<>>]
  /\ queued = [f \in Futures |-> <<>>]
  /\ closes = [f \in Futures |-> 0]
  /\ cancelCalls = [f \in Futures |-> 0]
  /\ doneOrder = <<>>
  /\ claims = [f \in Futures |-> <<>>]
  /\ NoGuard
  /\ NoPool
  /\ \E op \in ChainOps :
       \E fn \in ChainFns(op), oc \in Outcomes(SrcA), rc \in Outcomes(RelayA) :
         script = <<
           <<oc, CallChain(op, SrcA, DestA, fn, RelayA),
             CallChain(op, SrcB, DestB, fn, RelayB), OnFuture(oc, SrcB)>>,
           <<rc, OnFuture(rc, RelayB)>> >>
  /\ stack = [t \in ChainThreads |-> <<FrameOf(script[t][1])>>]
  /\ results = [t \in ChainThreads |-> <<>>]

NextChain ==
  \E t \in ChainThreads :
    \/ CompleteCas(t)
    \/ CompleteWrite(t)
    \/ CancelSignal(t)
    \/ FinishStore(t)
    \/ FinishLocked(t)
    \/ FinishFire(t)
    \/ RegisterLoad(t)
    \/ RegisterLocked(t)
    \/ RegisterInline(t)
    \/ ChainStart(t)
    \/ ChainFast(t)
    \/ InvokeApply(t)
    \/ InvokeCompose(t)
    \/ RelayIsDone(t)
    \/ RelayFast(t)
    \/ InvokeRelay(t)
    \/ InvokeWhen(t)

SpecChain == InitChain /\ [][NextChain]_vars

\* ------------------------------------------------- blockingExecutor.Submit

\* exec.Submit(task): task is a closure, and its id names the goroutine
\* Submit starts for it.  The frame's v is the value the task captured (the
\* val of an execTask that went async), handed on to the goroutine.
CallSubmit(task) == Call("Submit", 0, Zero, Nil, task)

\* The goroutine Submit starts: defer (release, recover); task().
WorkerFrame(task) ==
  [op |-> "worker", pc |-> "run", f |-> 0, v |-> Zero, e |-> Nil,
   cb |-> task, q |-> <<>>, ch |-> Nil]

\* A send that also goes through when the channel holds cap(e.sem) tokens.
CanAcquireOneMore(held, cap) == held <= cap

\* e.sem <- struct{}{} can proceed: the channel holds fewer than cap(e.sem).
CanAcquire(held, cap) == held < cap

\* Submit: take a permit, blocking while none is free, start the task's
\* goroutine, return.
SubmitAcquire(t) ==
  /\ At(t, {"Submit"}, "acquire")
  /\ CanAcquire(sem, limit)
  /\ LET fr == Top(t) IN
       /\ sem' = sem + 1
       /\ stack' = [stack EXCEPT ![t] = StackAfterReturn(t),
                                 ![fr.cb.id] = <<[WorkerFrame(fr.cb) EXCEPT !.v = fr.v]>>]
       /\ results' = ResultsAfterReturn(t, Result(fr.op, fr.cb.dest, TRUE, Zero, Nil))
       /\ script' = script
  /\ UNCHANGED <<cellVars, ghostVars, limit, panicking, released, logged,
                 guardVars>>

\* The goroutine calls task().
WorkerRun(t) ==
  /\ At(t, {"worker"}, "run")
  /\ LET fr == Top(t) IN
       Push(t, [fr EXCEPT !.pc = "release"], InvokeFrame(fr.cb, fr.v, Nil))
  /\ UNCHANGED <<cellVars, ghostVars, poolVars,
                 guardVars>>

\* A task given to Submit directly: it returns, or it panics.
InvokeUser(t) ==
  /\ At(t, {"invoke"}, "body")
  /\ Top(t).cb.k = "user"
  /\ \E out \in {"return", "panic"} :
       panicking' = [panicking EXCEPT ![t] = IF out = "panic" THEN "boom" ELSE Nil]
  /\ Return(t, Result("invoke", 0, TRUE, Zero, Nil))
  /\ UNCHANGED <<cellVars, ghostVars, sem, limit, released, logged,
                 guardVars>>

\* The release sits after task() instead of in the deferred function: a
\* panic skips it.
ReleaseSkippedOnPanic(p) == p = Nil

\* The release is the first thing the deferred function does, so it runs
\* whether task() returned or panicked.
ReleaseRuns(p) == TRUE

\* The deferred function: <-e.sem
WorkerRelease(t) ==
  /\ At(t, {"worker"}, "release")
  /\ IF ReleaseRuns(panicking[t])
       THEN /\ sem' = sem - 1
            /\ released' = [released EXCEPT ![t] = @ + 1]
       ELSE UNCHANGED <<sem, released>>
  /\ SetTop(t, [Top(t) EXCEPT !.pc = "recover"])
  /\ UNCHANGED <<cellVars, ghostVars, limit, panicking, logged,
                 guardVars>>

\* The deferred function: if r := recover(); r != nil { log.Printf(...) },
\* and the goroutine ends.
WorkerRecover(t) ==
  /\ At(t, {"worker"}, "recover")
  /\ logged' = IF panicking[t] # Nil THEN logged \cup {t} ELSE logged
  /\ panicking' = [panicking EXCEPT ![t] = Nil]
  /\ Return(t, Result("worker", 0, TRUE, Zero, Nil))
  /\ UNCHANGED <<cellVars, ghostVars, sem, limit, released,
                 guardVars>>

\* The goroutines of an executor scenario: the submitters, then one slot
\* per task.
Submitters == {1, 2}
Workers == 3 .. (2 + 2 * TasksEach)
PoolThreads == Submitters \cup Workers

\* The goroutine of submitter s's i-th task.
WorkerOf(s, i) == 2 + (s - 1) * TasksEach + i

\* NewBlockingExecutor(limit), and every submitter about to make its calls.
InitPool ==
  /\ NewFuture
  /\ hasCancel = [f \in Futures |-> FALSE]
  /\ calls = <<>>
  /\ fired = [f \in Futures |-> <<>>]
  /\ queued = [f \in Futures |-> <<>>]
  /\ closes = [f \in Futures |-> 0]
  /\ cancelCalls = [f \in Futures |-> 0]
  /\ doneOrder = <<>>
  /\ claims = [f \in Futures |-> <<>>]
  /\ NoGuard
  /\ sem = 0
  /\ limit \in 1 .. MaxLimit
  /\ panicking = [t \in PoolThreads |-> Nil]
  /\ released = [t \in PoolThreads |-> 0]
  /\ logged = {}
  /\ script = [t \in PoolThreads |->
                 IF t \in Submitters
                   THEN [i \in 1 .. TasksEach |->
                           CallSubmit(Closure("user", WorkerOf(t, i), 0, "", 0))]
                   ELSE <<>>]
  /\ stack = [t \in PoolThreads |->
                IF t \in Submitters THEN <<FrameOf(script[t][1])>> ELSE <<>>]
  /\ results = [t \in PoolThreads |-> <<>>]

NextPool ==
  \E t \in PoolThreads :
    \/ SubmitAcquire(t)
    \/ WorkerRun(t)
    \/ InvokeUser(t)
    \/ WorkerRelease(t)
    \/ WorkerRecover(t)

SpecPool == InitPool /\ [][NextPool]_vars

\* --------------------------------------------- SupplyAsync / CompleteAsync

\* f := SupplyAsync(supplier), or f.CompleteAsync(supplier): f is the
\* future made or completed, w the goroutine the executor starts.
CallSupplyAsync(f, fn, w) ==
  Call("SupplyAsync", f, Zero, Nil, Closure("supply", w, f, fn, 0))
CallCompleteAsync(f, fn, w) ==
  Call("CompleteAsync", f, Zero, Nil, Closure("completeAsync", w, f, fn, 0))

\* SupplyAsyncCtxWithExecutor: a nil supplier fails the new future at once;
\* else the task goes to the executor.  CompleteAsyncWithExecutor: the task
\* goes to the executor.
SupplyStart(t) ==
  /\ At(t, {"SupplyAsync", "CompleteAsync"}, "start")
  /\ LET fr == Top(t) IN
       IF fr.op = "SupplyAsync" /\ fr.cb.fn = "nil"
         THEN TailComplete(t, fr.f, Zero, ErrNilFunction)
         ELSE SetTop(t, FrameOf(CallSubmit(fr.cb)))
  /\ UNCHANGED <<cellVars, ghostVars, poolVars,
                 guardVars>>

\* The task SupplyAsyncCtxWithExecutor submits: a context already done
\* fails the future with ctx.Err(); else the supplier is called inside
\* safecall.  CompleteAsyncWithExecutor's task has no context.
InvokeSupply(t) ==
  /\ At(t, {"invoke"}, "body")
  /\ Top(t).cb.k \in {"supply", "completeAsync"}
  /\ LET fr == Top(t) IN
       IF fr.cb.k = "supply" /\ CtxIsDone(fr.cb.dest)
         THEN TailComplete(t, fr.cb.dest, Zero, ctxErr[fr.cb.dest]) /\ calls' = calls
         ELSE SetTop(t, [fr EXCEPT !.pc = "running"]) /\ Observed(fr.cb, t, Zero, Nil)
  /\ UNCHANGED <<cellVars, fired, queued, closes, cancelCalls, poolVars,
                 doneOrder, claims, guardVars>>

\* The supplier returns or panics, and the task completes the future with
\* what safecall made of it.  Nothing between the supplier's start and this
\* step looks at the context or at the future's state.
SupplyReturn(t) ==
  /\ At(t, {"invoke"}, "running")
  /\ Top(t).cb.k \in {"supply", "completeAsync"}
  /\ LET fr == Top(t)
         r == Safecall(UserFn(fr.cb.fn, Zero))
     IN TailComplete(t, fr.cb.dest, r[1], r[2])
  /\ UNCHANGED <<cellVars, ghostVars, poolVars, guardVars>>

\* Two callers, each starting a supplier on the shared executor and then
\* joining its future; goroutines 3 and 4 are the executor's.
Callers == {1, 2}
SupplyThreads == {1, 2, 3, 4}
SupplyWorker(c) == c + 2

\* What a supplier may be: it returns 1, it panics, or (SupplyAsync only)
\* it is nil.
Suppliers == {"one", "boom", "nil"}

InitSupply ==
  /\ NewFuture
  /\ hasCancel = [f \in Futures |-> FALSE]
  /\ calls = [i \in SupplyThreads |-> <<>>]
  /\ fired = [f \in Futures |-> <<>>]
  /\ queued = [f \in Futures |-> <<>>]
  /\ closes = [f \in Futures |-> 0]
  /\ cancelCalls = [f \in Futures |-> 0]
  /\ doneOrder = <<>>
  /\ claims = [f \in Futures |-> <<>>]
  /\ NoGuard
  /\ sem = 0
  /\ limit \in 1 .. MaxLimit
  /\ panicking = [t \in SupplyThreads |-> Nil]
  /\ released = [t \in SupplyThreads |-> 0]
  /\ logged = {}
  /\ \E how \in [Callers -> {"SupplyAsync", "CompleteAsync"}], fn \in [Callers -> Suppliers] :
       /\ \A c \in Callers : how[c] = "CompleteAsync" => fn[c] # "nil"
       /\ script = [t \in SupplyThreads |->
                      IF t \in Callers
                        THEN << IF how[t] = "SupplyAsync"
                                  THEN CallSupplyAsync(t, fn[t], SupplyWorker(t))
                                  ELSE CallCompleteAsync(t, fn[t], SupplyWorker(t)),
                                CallJoin(t) >>
                        ELSE <<>>]
  /\ stack = [t \in SupplyThreads |->
                IF t \in Callers THEN <<FrameOf(script[t][1])>> ELSE <<>>]
  /\ results = [t \in SupplyThreads |-> <<>>]

NextSupply ==
  \E t \in SupplyThreads :
    \/ SupplyStart(t)
    \/ SubmitAcquire(t)
    \/ WorkerRun(t)
    \/ InvokeSupply(t)
    \/ SupplyReturn(t)
    \/ WorkerRelease(t)
    \/ WorkerRecover(t)
    \/ CompleteCas(t)
    \/ CompleteWrite(t)
    \/ FinishStore(t)
    \/ FinishLocked(t)
    \/ FinishFire(t)
    \/ JoinLoad(t)
    \/ GetDoneChanLazy(t)
    \/ JoinWait(t)
    \/ JoinRead(t)

SpecSupply == InitSupply /\ [][NextSupply]_vars

\* ------------------------------------------------------- ThenApplyAsync

\* ThenApplyAsync(src, fn) with destination dest; w is the goroutine the
\* executor starts for the task.
CallThenApplyAsync(src, dest, fn, w) ==
  Call("ThenApplyAsync", src, Zero, Nil, Closure("applyAsync", dest, dest, fn, w))

\* uniApply's execTask, async: forward the error; else exec.Submit(task), on
\* the goroutine that runs execTask, the task being the closure that
\* completes dest with safecall(fn(val)).
InvokeApplyAsync(t) ==
  /\ At(t, {"invoke"}, "body")
  /\ Top(t).cb.k = "applyAsync"
  /\ LET fr == Top(t)
         task == Closure("apply", fr.cb.rel, fr.cb.dest, fr.cb.fn, 0)
     IN IF fr.e # Nil
          THEN TailComplete(t, fr.cb.dest, Zero, fr.e)
          ELSE SetTop(t, [FrameOf(CallSubmit(task)) EXCEPT !.v = fr.v])
  /\ UNCHANGED <<cellVars, ghostVars, poolVars, guardVars>>

\* Callers of one bounded executor: caller c starts a supplier and chains
\* ThenApplyAsync on its future.  Goroutines 3 and 4 run the suppliers, 5
\* and 6 the continuations' tasks.
PooledCallers == {1, 2}
PooledThreads == 1 .. 6
PooledSrc(c) == c
PooledDest(c) == c + 2
PooledSupplier(c) == c + 2
PooledTask(c) == c + 4

InitPooled ==
  /\ NewFuture
  /\ hasCancel = [f \in Futures |-> FALSE]
  /\ calls = [i \in PooledThreads |-> <<>>]
  /\ fired = [f \in Futures |-> <<>>]
  /\ queued = [f \in Futures |-> <<>>]
  /\ closes = [f \in Futures |-> 0]
  /\ cancelCalls = [f \in Futures |-> 0]
  /\ doneOrder = <<>>
  /\ claims = [f \in Futures |-> <<>>]
  /\ NoGuard
  /\ sem = 0
  /\ limit \in 1 .. MaxLimit
  /\ panicking = [t \in PooledThreads |-> Nil]
  /\ released = [t \in PooledThreads |-> 0]
  /\ logged = {}
  /\ \E active \in {{1}, {1, 2}}, fn \in {"one", "boom"} :
       script = [t \in PooledThreads |->
                   IF t \in active
                     THEN << CallSupplyAsync(PooledSrc(t), IF t = 1 THEN fn ELSE "one",
                                             PooledSupplier(t)),
                             CallThenApplyAsync(PooledSrc(t), PooledDest(t), "inc",
                                                PooledTask(t)) >>
                     ELSE <<>>]
  /\ stack = [t \in PooledThreads |->
                IF script[t] # <<>> THEN <<FrameOf(script[t][1])>> ELSE <<>>]
  /\ results = [t \in PooledThreads |-> <<>>]

NextPooled ==
  \E t \in PooledThreads :
    \/ SupplyStart(t)
    \/ SubmitAcquire(t)
    \/ WorkerRun(t)
    \/ InvokeSupply(t)
    \/ SupplyReturn(t)
    \/ WorkerRelease(t)
    \/ WorkerRecover(t)
    \/ ChainStart(t)
    \/ ChainFast(t)
    \/ InvokeApplyAsync(t)
    \/ InvokeApply(t)
    \/ CompleteCas(t)
    \/ CompleteWrite(t)
    \/ FinishStore(t)
    \/ FinishLocked(t)
    \/ FinishFire(t)
    \/ RegisterLoad(t)
    \/ RegisterLocked(t)
    \/ RegisterInline(t)

SpecPooled == InitPooled /\ [][NextPooled]_vars

\* ------------------------------------------ AllOf / AnyOf / ApplyToEither

ErrNoFutures == "no futures"    \* errors.New("no futures")

GuardOps == {"AllOf", "AnyOf", "ApplyToEither"}

\* The callback each combinator subscribes to its sources.
GuardKind(op) ==
  CASE op = "AllOf" -> "allof"
    [] op = "AnyOf" -> "anyof"
    [] op = "ApplyToEither" -> "either"

\* op(srcs...) with destination dest := New(), fn the user function of
\* ApplyToEither.
CallGuarded(op, srcs, dest, fn) ==
  Call(op, dest, Zero, Nil, Closure(GuardKind(op), 0, dest, fn, 0)) @@ [srcs |-> srcs]

\* The start of a combinator: no source at all settles dest at once; else
\* the countdown and the guard are made.
GuardStart(t) ==
  /\ At(t, GuardOps, "start")
  /\ LET fr == Top(t) IN
       IF fr.q = <<>>
         THEN /\ TailComplete(t, fr.f, Zero, IF fr.op = "AllOf" THEN Nil ELSE ErrNoFutures)
              /\ UNCHANGED <<doneFlag, pending>>
         ELSE /\ pending' = IF fr.op = "AllOf"
                              THEN [pending EXCEPT ![fr.f] = Len(fr.q)] ELSE pending
              /\ doneFlag' = [doneFlag EXCEPT ![fr.f] = 0]
              /\ SetTop(t, [fr EXCEPT !.pc = "loop"])
  /\ UNCHANGED <<cellVars, ghostVars, poolVars>>

\* for _, f := range futures { f.whenCompleteInternal(...) }; return dest
\* (orApply: the two whenCompleteInternal calls).  The callback of source f
\* is observed under f.
GuardLoop(t) ==
  /\ At(t, GuardOps, "loop")
  /\ LET fr == Top(t) IN
       IF fr.q = <<>>
         THEN Return(t, Result(fr.op, fr.f, TRUE, Zero, Nil))
         ELSE Push(t, [fr EXCEPT !.q = Tail(@)],
                   FrameOf(CallWhenComplete(Head(fr.q), [fr.cb EXCEPT !.id = Head(fr.q)])))
  /\ UNCHANGED <<cellVars, ghostVars, poolVars, guardVars>>

\* A guard every caller wins.
GuardCasAlways(flag) == TRUE

\* atomic.CompareAndSwapInt32(&doneFlag, 0, 1) succeeds.
GuardCas(flag) == flag = 0

\* The callback of source cb.id claimed dest's guard with (v, e).
Claimed(cb, v, e) ==
  claims' = [claims EXCEPT ![cb.dest] = Append(@, [src |-> cb.id, v |-> v, e |-> e])]

\* An AllOf callback that counts a failed source as one more success.
AllOfNeverFails(e) == FALSE

\* if err != nil
AllOfFails(e) == e # Nil

\* AllOf's callback: if atomic.LoadInt32(&doneFlag) == 1 { return }, then
\* the branch on err.
InvokeAllOf(t) ==
  /\ At(t, {"invoke"}, "body")
  /\ Top(t).cb.k = "allof"
  /\ LET fr == Top(t) IN
       IF doneFlag[fr.cb.dest] = 1
         THEN Return(t, Result("invoke", 0, FALSE, fr.v, fr.e))
         ELSE SetTop(t, [fr EXCEPT !.pc = IF AllOfFails(fr.e) THEN "cas" ELSE "add",
                                   !.v = Zero])
  /\ UNCHANGED <<cellVars, ghostVars, poolVars, guardVars>>

\* A countdown that reports zero one source early.
CountdownDoneEarly(n) == n <= 1

\* atomic.AddInt32(&pending, -1) == 0
CountdownDone(n) == n = 0

InvokeAllOfAdd(t) ==
  /\ At(t, {"invoke"}, "add")
  /\ LET fr == Top(t) IN
       /\ pending' = [pending EXCEPT ![fr.cb.dest] = @ - 1]
       /\ IF CountdownDone(pending[fr.cb.dest] - 1)
            THEN SetTop(t, [fr EXCEPT !.pc = "cas"])
            ELSE Return(t, Result("invoke", 0, FALSE, fr.v, fr.e))
  /\ UNCHANGED <<cellVars, ghostVars, poolVars, doneFlag>>

\* AllOf's callback at either of its compare-and-swaps: the winner fails
\* dest with the source's error, or completes it with struct{}{}.
InvokeAllOfCas(t) ==
  /\ At(t, {"invoke"}, "cas")
  /\ LET fr == Top(t) IN
       IF GuardCas(doneFlag[fr.cb.dest])
         THEN /\ doneFlag' = [doneFlag EXCEPT ![fr.cb.dest] = 1]
              /\ Claimed(fr.cb, fr.v, fr.e)
              /\ TailComplete(t, fr.cb.dest, fr.v, fr.e)
         ELSE /\ Return(t, Result("invoke", 0, FALSE, fr.v, fr.e))
              /\ UNCHANGED <<doneFlag, claims>>
  /\ UNCHANGED <<cellVars, calls, fired, queued, closes, cancelCalls, doneOrder,
                 poolVars, pending>>

\* AnyOf's callback: the winner of the guard settles dest with its own
\* (val, err).
InvokeAnyOf(t) ==
  /\ At(t, {"invoke"}, "body")
  /\ Top(t).cb.k = "anyof"
  /\ LET fr == Top(t) IN
       IF GuardCas(doneFlag[fr.cb.dest])
         THEN /\ doneFlag' = [doneFlag EXCEPT ![fr.cb.dest] = 1]
              /\ Claimed(fr.cb, fr.v, fr.e)
              /\ TailComplete(t, fr.cb.dest, fr.v, fr.e)
         ELSE /\ Return(t, Result("invoke", 0, FALSE, fr.v, fr.e))
              /\ UNCHANGED <<doneFlag, claims>>
  /\ UNCHANGED <<cellVars, calls, fired, queued, closes, cancelCalls, doneOrder,
                 poolVars, pending>>

\* A winner whose error is not looked at: fn is applied to its value.
EitherIgnoresError(e) == FALSE

\* if err != nil, in the winner of orApply's guard
EitherFails(e) == e # Nil

\* orApply's cb, not async: the winner of the guard fails dest with its
\* error, or completes it with safecall(fn(val)).
InvokeEither(t) ==
  /\ At(t, {"invoke"}, "body")
  /\ Top(t).cb.k = "either"
  /\ LET fr == Top(t)
         r == Safecall(UserFn(fr.cb.fn, fr.v))
     IN IF GuardCas(doneFlag[fr.cb.dest])
          THEN /\ doneFlag' = [doneFlag EXCEPT ![fr.cb.dest] = 1]
               /\ Claimed(fr.cb, fr.v, fr.e)
               /\ IF EitherFails(fr.e)
                    THEN TailComplete(t, fr.cb.dest, Zero, fr.e) /\ calls' = calls
                    ELSE /\ TailComplete(t, fr.cb.dest, r[1], r[2])
                         /\ calls' = [calls EXCEPT ![fr.cb.dest] =
                                        Append(@, [t |-> t, v |-> fr.v, e |-> fr.e])]
          ELSE /\ Return(t, Result("invoke", 0, FALSE, fr.v, fr.e))
               /\ UNCHANGED <<doneFlag, claims, calls>>
  /\ UNCHANGED <<cellVars, fired, queued, closes, cancelCalls, doneOrder,
                 poolVars, pending>>

\* ---------------------------------------------------- ThenCombine (biApply)

\* ThenCombine(f1, f2, fn) with destination dest; w is the goroutine the
\* global executor starts for biApply's task.
CallThenCombine(f1, f2, dest, fn, w) ==
  Call("ThenCombine", dest, Zero, Nil,
       Closure("combine", w, dest, fn, 0) @@ [srcs |-> <<f1, f2>>])

\* biApply: dest := New(); pool.GlobalExecutor.Submit(func() {...}); return dest
BiApplyStart(t) ==
  /\ At(t, {"ThenCombine"}, "start")
  /\ SetTop(t, FrameOf(CallSubmit(Top(t).cb)))
  /\ UNCHANGED <<cellVars, ghostVars, poolVars, guardVars>>

\* biApply's task: v1, err1 := f1.Join()
InvokeCombine(t) ==
  /\ At(t, {"invoke"}, "body")
  /\ Top(t).cb.k = "combine"
  /\ LET fr == Top(t) IN
       Push(t, [fr EXCEPT !.op = "biApply", !.pc = "got1"],
            FrameOf(CallJoin(fr.cb.srcs[1])))
  /\ UNCHANGED <<cellVars, ghostVars, poolVars, guardVars>>

\* if err1 != nil { dest.CompleteExceptionally(err1); return };
\* v2, err2 := f2.Join()
BiApplyGot1(t) ==
  /\ At(t, {"biApply"}, "got1")
  /\ LET fr == Top(t) IN
       IF fr.e # Nil
         THEN TailComplete(t, fr.cb.dest, Zero, fr.e)
         ELSE Push(t, [fr EXCEPT !.pc = "got2"], FrameOf(CallJoin(fr.cb.srcs[2])))
  /\ UNCHANGED <<cellVars, ghostVars, poolVars, guardVars>>

\* if err2 != nil { dest.CompleteExceptionally(err2); return }; task(), not
\* async: dest completed with safecall(fn(v1, v2)).
BiApplyGot2(t) ==
  /\ At(t, {"biApply"}, "got2")
  /\ LET fr == Top(t)
         r == Safecall(UserFn(fr.cb.fn, fr.q))
     IN IF fr.e # Nil
          THEN TailComplete(t, fr.cb.dest, Zero, fr.e) /\ calls' = calls
          ELSE /\ TailComplete(t, fr.cb.dest, r[1], r[2])
               /\ calls' = [calls EXCEPT ![fr.cb.dest] =
                              Append(@, [t |-> t, v |-> fr.q, e |-> Nil])]
  /\ UNCHANGED <<cellVars, fired, queued, closes, cancelCalls, doneOrder, claims,
                 poolVars, guardVars>>

\* Two sources, each completed (or left pending) by a goroutine of its own,
\* while a third goroutine calls one combinator on them; goroutine 4 is the
\* one the global executor starts for ThenCombine.
CombSrcs == <<1, 2>>
CombDest == 3
CombCaller == 1
CombWorker == 4
CombThreads == {1, 2, 3, 4}

\* The goroutine completing source f.
CompleterOf(f) == f + 1

\* The error source f fails with, one per source.
SourceErr(f) == IF f = 1 THEN ErrUser ELSE ErrForced

\* What the goroutine of source f does: nothing, or one completion.
SourcePrograms(f) ==
  {<<>>, <<CallCompleteExceptionally(f, SourceErr(f))>>}
    \cup {<<CallComplete(f, v)>> : v \in Vals}

\* The combinator calls of the scenario.
CombCalls ==
  {CallGuarded(op, srcs, CombDest, "") : op \in {"AllOf", "AnyOf"}, srcs \in {<<>>, CombSrcs}}
    \cup {CallGuarded("ApplyToEither", CombSrcs, CombDest, fn) : fn \in {"inc", "boom"}}
    \cup {CallThenCombine(1, 2, CombDest, fn, CombWorker) : fn \in {"add", "boom"}}

InitComb ==
  /\ NewFuture
  /\ hasCancel = [f \in Futures |-> FALSE]
  /\ calls = [i \in Futures |-> <<>>]
  /\ fired = [f \in Futures |-> <<>>]
  /\ queued = [f \in Futures |-> <<>>]
  /\ closes = [f \in Futures |-> 0]
  /\ cancelCalls = [f \in Futures |-> 0]
  /\ doneOrder = <<>>
  /\ claims = [f \in Futures |-> <<>>]
  /\ NoGuard
  /\ sem = 0
  /\ limit = MaxLimit
  /\ panicking = [t \in CombThreads |-> Nil]
  /\ released = [t \in CombThreads |-> 0]
  /\ logged = {}
  /\ \E c \in CombCalls, p1 \in SourcePrograms(1), p2 \in SourcePrograms(2) :
       script = <<<<c>>, p1, p2, <<>>>>
  /\ stack = [t \in CombThreads |->
                IF script[t] = <<>> THEN <<>> ELSE <<FrameOf(script[t][1])>>]
  /\ results = [t \in CombThreads |-> <<>>]

NextComb ==
  \E t \in CombThreads :
    \/ CompleteCas(t)
    \/ CompleteWrite(t)
    \/ FinishStore(t)
    \/ FinishLocked(t)
    \/ FinishFire(t)
    \/ RegisterLoad(t)
    \/ RegisterLocked(t)
    \/ RegisterInline(t)
    \/ JoinLoad(t)
    \/ GetDoneChanLazy(t)
    \/ JoinWait(t)
    \/ JoinRead(t)
    \/ SubmitAcquire(t)
    \/ WorkerRun(t)
    \/ WorkerRelease(t)
    \/ WorkerRecover(t)
    \/ GuardStart(t)
    \/ GuardLoop(t)
    \/ InvokeAllOf(t)
    \/ InvokeAllOfAdd(t)
    \/ InvokeAllOfCas(t)
    \/ InvokeAnyOf(t)
    \/ InvokeEither(t)
    \/ BiApplyStart(t)
    \/ InvokeCombine(t)
    \/ BiApplyGot1(t)
    \/ BiApplyGot2(t)

SpecComb == InitComb /\ [][NextComb]_vars

\* ------------------------------------------------------------- OrTimeout

\* The goroutine f.OrTimeout(d) starts, and the one
\* f.CompleteOnTimeout(v, d) starts.
CallOrTimeout(f) == Call("OrTimeout", f, Zero, Nil, NoCb)
CallCompleteOnTimeout(f, v) == Call("CompleteOnTimeout", f, v, Nil, NoCb)
TimerOps == {"OrTimeout", "CompleteOnTimeout"}

\* The select is entered: its second case waits on f.doneChan as the field
\* is now, a nil channel if nobody has asked for one yet.
TimerStart(t) ==
  /\ At(t, TimerOps, "start")
  /\ LET fr == Top(t) IN
       SetTop(t, [fr EXCEPT !.pc = "select",
                            !.ch = IF doneChan[fr.f] = Nil THEN Nil ELSE "own"])
  /\ UNCHANGED <<cellVars, ghostVars, poolVars, guardVars>>

\* case <-time.After(d): the timer fires.  The frame notes in v whether the
\* future was pending at that moment.
TimerFire(t) ==
  /\ At(t, {"OrTimeout"}, "select")
  /\ LET fr == Top(t) IN
       SetTop(t, [fr EXCEPT !.pc = "isdone",
                            !.v = IF state[fr.f] = statePending THEN 1 ELSE 0])
  /\ UNCHANGED <<cellVars, ghostVars, poolVars, guardVars>>

\* case <-f.doneChan: the channel was closed, the goroutine ends.
TimerDoneChan(t) ==
  /\ At(t, TimerOps, "select")
  /\ ChanClosed(Top(t))
  /\ Return(t, Result(Top(t).op, Top(t).f, FALSE, 0, Nil))
  /\ UNCHANGED <<cellVars, ghostVars, poolVars, guardVars>>

\* if f.IsDone() { return }
TimerIsDone(t) ==
  /\ At(t, {"OrTimeout"}, "isdone")
  /\ LET fr == Top(t) IN
       IF state[fr.f] = stateDone
         THEN Return(t, Result("OrTimeout", fr.f, FALSE, fr.v, Nil))
         ELSE SetTop(t, [fr EXCEPT !.pc = "lock"])
  /\ UNCHANGED <<cellVars, ghostVars, poolVars, guardVars>>

\* f.mu.Lock(); if f.state != stateDone { f.mu.Unlock();
\* f.CompleteExceptionally(ErrTimeout) } else { f.mu.Unlock() }
TimerLocked(t) ==
  /\ At(t, {"OrTimeout"}, "lock")
  /\ LET fr == Top(t) IN
       /\ mu[fr.f] = 0
       /\ IF state[fr.f] # stateDone
            THEN SetTop(t, [FrameOf(CallCompleteExceptionally(fr.f, ErrTimeout))
                              EXCEPT !.v = fr.v])
            ELSE Return(t, Result("OrTimeout", fr.f, FALSE, fr.v, Nil))
  /\ UNCHANGED <<cellVars, ghostVars, poolVars, guardVars>>

\* A supplier that completes the future or never does, the goroutine of
\* OrTimeout, and a goroutine joining the future.
Supplier == 1
Timer == 2
Waiter == 3
TimeoutThreads == {1, 2, 3}

SupplierPrograms ==
  {<<>>, <<CallCompleteExceptionally(Cell, ErrUser)>>}
    \cup {<<CallComplete(Cell, v)>> : v \in Vals}

InitTimeout ==
  /\ NewFuture
  /\ hasCancel = [f \in Futures |-> FALSE]
  /\ NoHistory
  /\ NoPool
  /\ \E p \in SupplierPrograms :
       script = <<p, <<CallOrTimeout(Cell)>>, <<CallJoin(Cell)>>>>
  /\ stack = [t \in TimeoutThreads |->
                IF script[t] = <<>> THEN <<>> ELSE <<FrameOf(script[t][1])>>]
  /\ results = [t \in TimeoutThreads |-> <<>>]

NextTimeout ==
  \E t \in TimeoutThreads :
    \/ CompleteCas(t)
    \/ CompleteWrite(t)
    \/ FinishStore(t)
    \/ FinishLocked(t)
    \/ FinishFire(t)
    \/ JoinLoad(t)
    \/ GetDoneChanLazy(t)
    \/ JoinWait(t)
    \/ JoinRead(t)
    \/ TimerStart(t)
    \/ TimerFire(t)
    \/ TimerDoneChan(t)
    \/ TimerIsDone(t)
    \/ TimerLocked(t)

SpecTimeout == InitTimeout /\ [][NextTimeout]_vars

\* ------------------------------------------------------ CompleteOnTimeout

\* What the timer's Complete call carries in e, a field Complete does not
\* use: whether the future was pending when the timer fired.
FiredPending == "pending"
FiredSettled == "settled"

\* case <-time.After(d): f.Complete(value)
TimerFireComplete(t) ==
  /\ At(t, {"CompleteOnTimeout"}, "select")
  /\ LET fr == Top(t) IN
       SetTop(t, [FrameOf(CallComplete(fr.f, fr.v)) EXCEPT
                    !.e = IF state[fr.f] = statePending THEN FiredPending
                                                        ELSE FiredSettled])
  /\ UNCHANGED <<cellVars, ghostVars, poolVars, guardVars>>

\* The value CompleteOnTimeout is given.
DefaultVal == NumVals

\* The scenario of OrTimeout, with CompleteOnTimeout(DefaultVal, d) in its
\* place.
InitDefault ==
  /\ NewFuture
  /\ hasCancel = [f \in Futures |-> FALSE]
  /\ NoHistory
  /\ NoPool
  /\ \E p \in SupplierPrograms :
       script = <<p, <<CallCompleteOnTimeout(Cell, DefaultVal)>>, <<CallJoin(Cell)>>>>
  /\ stack = [t \in TimeoutThreads |->
                IF script[t] = <<>> THEN <<>> ELSE <<FrameOf(script[t][1])>>]
  /\ results = [t \in TimeoutThreads |-> <<>>]

NextDefault ==
  \E t \in TimeoutThreads :
    \/ CompleteCas(t)
    \/ CompleteWrite(t)
    \/ FinishStore(t)
    \/ FinishLocked(t)
    \/ FinishFire(t)
    \/ JoinLoad(t)
    \/ GetDoneChanLazy(t)
    \/ JoinWait(t)
    \/ JoinRead(t)
    \/ TimerStart(t)
    \/ TimerFireComplete(t)
    \/ TimerDoneChan(t)

SpecDefault == InitDefault /\ [][NextDefault]_vars

\* ------------------------------------------------- Exceptionally / Handle

ErrorOps == {"Exceptionally", "Handle"}

\* uniExceptionally and uniHandle have no fast path: the closure always goes
\* through f.whenCompleteInternal.
ErrorStart(t) ==
  /\ At(t, ErrorOps, "start")
  /\ SetTop(t, FrameOf(CallWhenComplete(Top(t).f, Top(t).cb)))
  /\ UNCHANGED <<cellVars, ghostVars, poolVars, guardVars>>

\* What "fallback" and "fold" return for an error.
FallbackFor(e) == IF e = ErrCanceled THEN 1 ELSE 2

\* A handler applied to (v, e): whether it panics (and with what), else the
\* value and the error it returns.  Exceptionally's handlers see e only:
\* "fallback" returns a value for it, "refail" another error.  Handle's
\* "fold" maps a value to its successor and an error to a value.
UserHandler(fn, v, e) ==
  CASE fn = "fallback" -> [panics |-> FALSE, msg |-> "", val |-> FallbackFor(e), err |-> Nil]
    [] fn = "refail" -> [panics |-> FALSE, msg |-> "", val |-> Zero, err |-> ErrForced]
    [] fn = "fold" -> [panics |-> FALSE, msg |-> "",
                       val |-> IF e = Nil THEN v + 1 ELSE FallbackFor(e), err |-> Nil]
    [] OTHER -> [panics |-> TRUE, msg |-> "boom", val |-> Zero, err |-> Nil]

\* An Exceptionally task that completes dest with v whatever e is.
ExceptionallyIgnoresError(out) ==
  IF out.panics THEN <<Zero, "panic in Exceptionally: " \o out.msg>>
  ELSE <<out.val, Nil>>

\* v, e := fn(err) under the deferred recover: the panic's error, else
\* fn's error, else fn's value.
ExceptionallyResult(out) ==
  IF out.panics THEN <<Zero, "panic in Exceptionally: " \o out.msg>>
  ELSE IF out.err # Nil THEN <<Zero, out.err>>
  ELSE <<out.val, Nil>>

\* uniExceptionally's closure, not async: a source that succeeded hands its
\* value on; else the handler runs on the error.
InvokeExceptionally(t) ==
  /\ At(t, {"invoke"}, "body")
  /\ Top(t).cb.k = "exceptionally"
  /\ LET fr == Top(t)
         r == ExceptionallyResult(UserHandler(fr.cb.fn, fr.v, fr.e))
     IN IF fr.e = Nil
          THEN TailComplete(t, fr.cb.dest, fr.v, Nil) /\ calls' = calls
          ELSE TailComplete(t, fr.cb.dest, r[1], r[2]) /\ Observed(fr.cb, t, fr.v, fr.e)
  /\ UNCHANGED <<cellVars, fired, queued, closes, cancelCalls, poolVars,
                 doneOrder, claims, guardVars>>

\* A Handle task whose recover forgets to fail dest.
HandleDropsPanic(out) == <<out.val, Nil>>

\* res := fn(val, err); dest.Complete(res) under the deferred recover.
HandleResult(out) ==
  IF out.panics THEN <<Zero, "panic in Handle: " \o out.msg>>
  ELSE <<out.val, Nil>>

\* uniHandle's closure, not async: the handler runs on whatever the source
\* ended with.
InvokeHandle(t) ==
  /\ At(t, {"invoke"}, "body")
  /\ Top(t).cb.k = "handle"
  /\ LET fr == Top(t)
         r == HandleResult(UserHandler(fr.cb.fn, fr.v, fr.e))
     IN /\ TailComplete(t, fr.cb.dest, r[1], r[2])
        /\ Observed(fr.cb, t, fr.v, fr.e)
  /\ UNCHANGED <<cellVars, fired, queued, closes, cancelCalls, poolVars,
                 doneOrder, claims, guardVars>>

\* A pipeline of two steps built by one goroutine on a source that a second
\* goroutine completes at any time: source -> middle -> end.
PipeSrc == 1
PipeMid == 2
PipeEnd == 3
PipeThreads == {1, 2}
PipeOps == {"ThenApply", "Exceptionally", "Handle"}

\* The user functions a step may be given.
PipeFns(op) ==
  CASE op = "ThenApply" -> {"inc", "boom"}
    [] op = "Exceptionally" -> {"fallback", "refail", "boom"}
    [] op = "Handle" -> {"fold", "boom"}

InitPipe ==
  /\ NewFuture
  /\ hasCancel = [f \in Futures |-> FALSE]
  /\ calls = [i \in Futures |-> <<>>]
  /\ fired = [f \in Futures |-> <<>>]
  /\ queued = [f \in Futures |-> <<>>]
  /\ closes = [f \in Futures |-> 0]
  /\ cancelCalls = [f \in Futures |-> 0]
  /\ doneOrder = <<>>
  /\ claims = [f \in Futures |-> <<>>]
  /\ NoGuard
  /\ NoPool
  /\ \E op1 \in PipeOps, op2 \in PipeOps :
       \E fn1 \in PipeFns(op1), fn2 \in PipeFns(op2), oc \in Outcomes(PipeSrc) :
         script = << <<CallChain(op1, PipeSrc, PipeMid, fn1, 0),
                       CallChain(op2, PipeMid, PipeEnd, fn2, 0)>>,
                     <<oc>> >>
  /\ stack = [t \in PipeThreads |-> <<FrameOf(script[t][1])>>]
  /\ results = [t \in PipeThreads |-> <<>>]

NextPipe ==
  \E t \in PipeThreads :
    \/ CompleteCas(t)
    \/ CompleteWrite(t)
    \/ CancelSignal(t)
    \/ FinishStore(t)
    \/ FinishLocked(t)
    \/ FinishFire(t)
    \/ RegisterLoad(t)
    \/ RegisterLocked(t)
    \/ RegisterInline(t)
    \/ ChainStart(t)
    \/ ChainFast(t)
    \/ ErrorStart(t)
    \/ InvokeApply(t)
    \/ InvokeExceptionally(t)
    \/ InvokeHandle(t)

SpecPipe == InitPipe /\ [][NextPipe]_vars

\* ------------------------------------------- cancelling a running supplier

ErrCtxCanceled == "context canceled"

\* cancel(), the function context.WithCancel gave the caller together with
\* the context handed to SupplyAsyncCtx.
CallCancelCtx(f) == Call("cancelCtx", f, Zero, Nil, NoCb)

\* cancel(): the caller's context is done, and so is the context the
\* future derived from it.
CtxCancel(t) ==
  /\ At(t, {"cancelCtx"}, "start")
  /\ ctxErr' = [ctxErr EXCEPT ![Top(t).f] = ErrCtxCanceled]
  /\ ctxCancelled' = [ctxCancelled EXCEPT ![Top(t).f] = TRUE]
  /\ Return(t, Result("cancelCtx", Top(t).f, TRUE, Zero, Nil))
  /\ UNCHANGED <<state, value, err, cb0, cbs, doneChan, mu, hasCancel,
                 ghostVars, poolVars, guardVars>>

\* The owner starts a supplier with SupplyAsync or, under a cancellable
\* context, SupplyAsyncCtx, may Cancel the future, and joins it; an outsider
\* may cancel the context; the third goroutine is the executor's.
Owner == 1
Outsider == 2
CancelWorker == 3
CancelThreads == {1, 2, 3}

InitCancel ==
  /\ NewFuture
  /\ hasCancel \in [Futures -> BOOLEAN]
  /\ \A f \in Futures \ {Cell} : ~hasCancel[f]
  /\ calls = [i \in CancelThreads |-> <<>>]
  /\ fired = [f \in Futures |-> <<>>]
  /\ queued = [f \in Futures |-> <<>>]
  /\ closes = [f \in Futures |-> 0]
  /\ cancelCalls = [f \in Futures |-> 0]
  /\ doneOrder = <<>>
  /\ claims = [f \in Futures |-> <<>>]
  /\ NoGuard
  /\ sem = 0
  /\ limit \in 1 .. MaxLimit
  /\ panicking = [t \in CancelThreads |-> Nil]
  /\ released = [t \in CancelThreads |-> 0]
  /\ logged = {}
  /\ \E fn \in Suppliers, cancels \in BOOLEAN, outside \in BOOLEAN :
       /\ outside => hasCancel[Cell]
       /\ script = << <<CallSupplyAsync(Cell, fn, CancelWorker)>>
                        \o (IF cancels THEN <<CallCancel(Cell)>> ELSE <<>>)
                        \o <<CallJoin(Cell)>>,
                      IF outside THEN <<CallCancelCtx(Cell)>> ELSE <<>>,
                      <<>> >>
  /\ stack = [t \in CancelThreads |->
                IF script[t] = <<>> THEN <<>> ELSE <<FrameOf(script[t][1])>>]
  /\ results = [t \in CancelThreads |-> <<>>]

NextCancel ==
  \E t \in CancelThreads :
    \/ SupplyStart(t)
    \/ SubmitAcquire(t)
    \/ WorkerRun(t)
    \/ InvokeSupply(t)
    \/ SupplyReturn(t)
    \/ WorkerRelease(t)
    \/ WorkerRecover(t)
    \/ CtxCancel(t)
    \/ CompleteCas(t)
    \/ CompleteWrite(t)
    \/ CancelSignal(t)
    \/ FinishStore(t)
    \/ FinishLocked(t)
    \/ FinishFire(t)
    \/ JoinLoad(t)
    \/ GetDoneChanLazy(t)
    \/ JoinWait(t)
    \/ JoinRead(t)

SpecCancel == InitCancel /\ [][NextCancel]_vars

\* A step of goroutine t of that scenario; the scheduler keeps running
\* every goroutine that can take one.
StepCancel(t) ==
  \/ SupplyStart(t) \/ SubmitAcquire(t) \/ WorkerRun(t) \/ InvokeSupply(t)
  \/ SupplyReturn(t) \/ WorkerRelease(t) \/ WorkerRecover(t) \/ CtxCancel(t)
  \/ CompleteCas(t) \/ CompleteWrite(t) \/ CancelSignal(t) \/ FinishStore(t)
  \/ FinishLocked(t) \/ FinishFire(t) \/ JoinLoad(t) \/ GetDoneChanLazy(t)
  \/ JoinWait(t) \/ JoinRead(t)

SpecCancelFair == SpecCancel /\ \A t \in CancelThreads : WF_vars(StepCancel(t))

\* ------------------------------------------- waiting, reading and forcing

\* The slot whose context Get is given, a cancellable one; the value GetNow
\* is given for an absent outcome.
GetCtx == 2
Absent == NumVals + 1

\* What a goroutine of this scenario may do: one call on the future, a
\* cancel() of Get's context, or: complete, force a failure, register.
WaitPrograms(t) ==
  << <<CallComplete(Cell, 1)>>,
     <<CallCompleteExceptionally(Cell, ErrUser)>>,
     <<CallCancel(Cell)>>,
     <<CallObtrudeValue(Cell, NumVals)>>,
     <<CallWhenComplete(Cell, Probe(t))>>,
     <<CallJoin(Cell)>>,
     <<CallGet(Cell, GetCtx)>>,
     <<CallCancelCtx(GetCtx)>>,
     <<CallResultNow(Cell)>>,
     <<CallExceptionNow(Cell)>>,
     <<CallGetNow(Cell, Absent)>>,
     <<CallComplete(Cell, 1), CallObtrudeException(Cell, ErrForced),
       CallWhenComplete(Cell, Probe(t))>> >>

WaitThreads == {1, 2, 3}

InitWait ==
  /\ NewFuture
  /\ hasCancel = [f \in Futures |-> f \in {Cell, GetCtx}]
  /\ NoHistory
  /\ NoPool
  /\ \E pick \in [WaitThreads -> 1 .. 12] :
       /\ \A t \in WaitThreads : t > 1 => pick[t - 1] <= pick[t]
       /\ script = [t \in WaitThreads |-> WaitPrograms(t)[pick[t]]]
  /\ stack = [t \in WaitThreads |-> <<FrameOf(script[t][1])>>]
  /\ results = [t \in WaitThreads |-> <<>>]

NextWait ==
  \E t \in WaitThreads :
    \/ CompleteCas(t)
    \/ CompleteWrite(t)
    \/ CancelSignal(t)
    \/ FinishStore(t)
    \/ FinishLocked(t)
    \/ FinishFire(t)
    \/ RegisterLoad(t)
    \/ RegisterLocked(t)
    \/ RegisterInline(t)
    \/ InvokeProbe(t)
    \/ JoinLoad(t)
    \/ GetDoneChanLazy(t)
    \/ JoinWait(t)
    \/ JoinRead(t)
    \/ GetCtxDone(t)
    \/ CtxCancel(t)
    \/ AccessLoad(t)
    \/ AccessRead(t)
    \/ AccessReturn(t)
    \/ ObtrudeLock(t)
    \/ ObtrudeErr(t)
    \/ ObtrudeStore(t)

SpecWait == InitWait /\ [][NextWait]_vars

StepWait(t) ==
  \/ CompleteCas(t) \/ CompleteWrite(t) \/ CancelSignal(t) \/ FinishStore(t)
  \/ FinishLocked(t) \/ FinishFire(t) \/ RegisterLoad(t) \/ RegisterLocked(t)
  \/ RegisterInline(t) \/ InvokeProbe(t) \/ JoinLoad(t) \/ GetDoneChanLazy(t)
  \/ JoinWait(t) \/ JoinRead(t) \/ GetCtxDone(t) \/ CtxCancel(t)
  \/ AccessLoad(t) \/ AccessRead(t) \/ AccessReturn(t)
  \/ ObtrudeLock(t) \/ ObtrudeErr(t) \/ ObtrudeStore(t)

SpecWaitFair == SpecWait /\ \A t \in WaitThreads : WF_vars(StepWait(t))

\* A step of thread t: the Go scheduler runs every runnable goroutine
\* again and again, so a step that stays possible is eventually taken.
Step(t) ==
  \/ CompleteCas(t) \/ CompleteWrite(t) \/ CancelSignal(t) \/ FinishStore(t)
  \/ FinishLocked(t) \/ FinishFire(t) \/ RegisterLoad(t) \/ RegisterLocked(t)
  \/ RegisterInline(t) \/ InvokeProbe(t) \/ JoinLoad(t) \/ GetDoneChanLazy(t)
  \/ JoinWait(t) \/ JoinRead(t)

SpecFair == Spec /\ \A t \in Threads : WF_vars(Step(t))

\* ------------------------------------------------- what the scenario shows

\* The call thread t of the result-cell scenario makes.
TheCall(t) == script[t][1]
Completers == {t \in Threads : TheCall(t).op \in CompletionOps}
Registrants == {t \in Threads : TheCall(t).op = "whenCompleteInternal"}
Joiners == {t \in Threads : TheCall(t).op = "Join"}
Finished(t) == ~Running(t)

\* The outcome a completion call supplies: (value, error).
Supplied(c) ==
  CASE c.op = "Complete" -> <<c.v, Nil>>
    [] c.op = "CompleteExceptionally" -> <<Zero, c.e>>
    [] c.op = "Cancel" -> <<Zero, ErrCanceled>>

Stored(f) == <<value[f], err[f]>>

\* Completion calls that have returned true / false.
ReturnedTrue == {t \in Completers : results[t] # <<>> /\ results[t][1].b}
ReturnedFalse == {t \in Completers : results[t] # <<>> /\ ~results[t][1].b}
\* Completion calls past their compare-and-swap, which they won.
PastCas == {t \in Completers : Running(t) /\ stack[t][1].pc # "cas"} \cup ReturnedTrue

\* C1: exactly-once completion.  Of any number of concurrent Complete,
\* CompleteExceptionally and Cancel calls on a pending future, at most one
\* returns true, exactly one has once all have returned, every other one
\* returns false, and a Done future stores the outcome its winner supplied.
C1_ExactlyOnce ==
  /\ Cardinality(ReturnedTrue) <= 1
  /\ (Completers # {} /\ \A t \in Completers : Finished(t))
       => /\ Cardinality(ReturnedTrue) = 1
          /\ ReturnedFalse = Completers \ ReturnedTrue
  /\ \A t \in ReturnedTrue :
       state[Cell] = stateDone /\ Stored(Cell) = Supplied(TheCall(t))
  /\ state[Cell] = stateDone
       => \E t \in PastCas : PastCas = {t} /\ Stored(Cell) = Supplied(TheCall(t))

C1_Witness ==
  /\ Cardinality(ReturnedTrue) = 1
  /\ Cardinality(ReturnedFalse) = 2
  /\ \E t \in ReturnedTrue, u \in ReturnedFalse :
       /\ Supplied(TheCall(t)) # Supplied(TheCall(u))
       /\ Stored(Cell) = Supplied(TheCall(t))

\* C2: continuation completeness.  A continuation registered while a
\* completion call races is invoked at most once, exactly once when the
\* future is Done and every call has returned, by the completing thread or
\* by its own registering thread, and with the stored (value, error).
C2_ContinuationCompleteness ==
  \A r \in Registrants :
    /\ Len(calls[r]) <= 1
    /\ \A i \in 1 .. Len(calls[r]) :
         /\ state[Cell] = stateDone
         /\ <<calls[r][i].v, calls[r][i].e>> = Stored(Cell)
         /\ calls[r][i].t \in PastCas \cup {r}
    /\ (state[Cell] = stateDone /\ \A t \in Threads : Finished(t))
         => Len(calls[r]) = 1

C2_Witness ==
  /\ Cardinality(Completers) = 1
  /\ Cardinality(Registrants) = 2
  /\ \A t \in Threads : Finished(t)
  /\ \E r, q \in Registrants :
       /\ Len(calls[r]) = 1 /\ calls[r][1].t = r
       /\ Len(calls[q]) = 1 /\ calls[q][1].t \in Completers

IsPrefix(s, u) == Len(s) <= Len(u) /\ s = SubSeq(u, 1, Len(s))

\* C3: ordering of queued continuations.  The continuations queued on a
\* future not yet Done are fired in the order they were queued, all by the
\* thread that won the compare-and-swap, and all of them have run when that
\* thread's completion call returns.
C3_QueuedOrder ==
  /\ IsPrefix(fired[Cell], queued[Cell])
  /\ \A i \in 1 .. Len(fired[Cell]) :
       \A j \in 1 .. Len(calls[fired[Cell][i]]) :
         calls[fired[Cell][i]][j].t \in PastCas
  /\ fired[Cell] # <<>> => Cardinality(PastCas) = 1
  /\ ReturnedTrue # {}
       => /\ fired[Cell] = queued[Cell]
          /\ \A i \in 1 .. Len(queued[Cell]) : Len(calls[queued[Cell][i]]) = 1

C3_Witness ==
  /\ ReturnedTrue # {}
  /\ Len(queued[Cell]) = 2
  /\ fired[Cell] = queued[Cell]

\* What a Join call of thread t returned, if it has.
JoinReturned(t) == t \in Joiners /\ results[t] # <<>>

\* C4: Join has no lost wake-up.  A Join returns only when the future is
\* Done, returns the outcome the winning completion call stored, and, when
\* some completion call is made, every Join eventually returns.
C4_JoinSafe ==
  \A t \in Threads :
    JoinReturned(t)
      => /\ state[Cell] = stateDone
         /\ <<results[t][1].v, results[t][1].e>> = Stored(Cell)
         /\ \E w \in PastCas : Stored(Cell) = Supplied(TheCall(w))

C4_JoinNoLostWakeup ==
  /\ []C4_JoinSafe
  /\ (Completers # {}) ~> (\A t \in Joiners : JoinReturned(t))

\* A Join that made the channel and was woken by its close.
C4_Witness ==
  \E t \in Joiners :
    /\ JoinReturned(t)
    /\ closes[Cell] = 1
    /\ results[t][1].e = ErrCanceled

\* C5: a losing completion is a no-op.  A completion call that finds the
\* future no longer Pending returns false at once and changes neither the
\* stored value and error, nor the state, the queue or the channel, fires
\* no continuation and does not call the cancel function.
C5_LoserStep(t) ==
  (/\ At(t, CompletionOps, "cas")
   /\ state[Top(t).f] # statePending
   /\ stack'[t] # stack[t])
    => /\ stack'[t] = <<>>
       /\ results'[t] = <<Result(Top(t).op, Top(t).f, FALSE, Top(t).v, Top(t).e)>>
       /\ UNCHANGED <<cellVars, ghostVars>>

C5_LoserIsNoOp == [][\A t \in Threads : C5_LoserStep(t)]_vars

\* A loser has returned after the winner fired a continuation.
C5_Witness ==
  /\ ReturnedFalse # {}
  /\ \E r \in Registrants : Len(calls[r]) = 1
  /\ state[Cell] = stateDone

\* C6: fast-path correctness.  For ThenApply, ThenCompose and WhenComplete,
\* chaining onto a source that is already Done leaves the destination with
\* the same final outcome as chaining onto the source while pending and
\* completing it afterwards with that outcome.
ChainSettled == \A t \in ChainThreads : Finished(t)

C6_FastPathSameOutcome ==
  ChainSettled
    => /\ state[DestA] = state[DestB]
       /\ Stored(DestA) = Stored(DestB)
       /\ queued[SrcA] = <<>>
       /\ queued[SrcB] = <<DestB>>

\* Both sides ended with a destination that failed with the source's error.
C6_Witness ==
  /\ ChainSettled
  /\ state[DestA] = stateDone
  /\ Stored(DestA) = <<Zero, ErrUser>>
  /\ Stored(DestB) = <<Zero, ErrUser>>
  /\ script[1][2].op = "ThenCompose"

\* C7: value and failure are mutually exclusive once Done.  Under any
\* interleaving of Complete, CompleteExceptionally, Cancel, ObtrudeValue and
\* ObtrudeException, a Done future holds a value with a nil error or a
\* non-nil error with the zero value, never a supplied value and an error.
C7_ValueXorError ==
  state[Cell] = stateDone => (err[Cell] = Nil \/ value[Cell] = Zero)

\* The same, looked at only once every call has returned (no Obtrude is
\* half-way through its two writes).
C7_ValueXorErrorAtRest ==
  (\A t \in Threads : Finished(t)) => C7_ValueXorError

\* The caller's supplier panics with "boom".
SupplierPanics(c) == script[c][1].cb.fn = "boom"
PanicError == "panic: boom"

\* C8: fault containment.  A supplier given to SupplyAsync or CompleteAsync
\* that panics never lets the panic unwind the executor's goroutine or reach
\* the caller: the future ends completed exceptionally with the error
\* "panic: <value>", Join returns that error, and the permit is released.
C8_FaultContainment ==
  /\ \A t \in SupplyThreads : panicking[t] = Nil
  /\ logged = {}
  /\ \A c \in Callers :
       SupplierPanics(c)
         => /\ state[c] = stateDone => Stored(c) = <<Zero, PanicError>>
            /\ results[SupplyWorker(c)] # <<>>
                 => /\ state[c] = stateDone
                    /\ released[SupplyWorker(c)] = 1
            /\ Len(results[c]) = 2
                 => <<results[c][2].v, results[c][2].e>> = <<Zero, PanicError>>
  /\ (\A t \in SupplyThreads : Finished(t)) => sem = 0

\* On an executor of limit 1, both suppliers panicked and both Joins
\* returned the panic's error.
C8_Witness ==
  /\ limit = 1
  /\ \A c \in Callers :
       /\ SupplierPanics(c)
       /\ Len(results[c]) = 2
       /\ results[c][2].e = PanicError
  /\ sem = 0

\* The tasks holding a permit: started by Submit, their deferred release
\* not yet run.
Holding == {w \in Workers : Running(w) /\ stack[w][1].pc # "recover"}
\* The tasks inside task().
Executing == {w \in Workers : Len(stack[w]) = 2}
\* The submitters blocked in Submit.
Blocked == {t \in Submitters : At(t, {"Submit"}, "acquire") /\ ~CanAcquire(sem, limit)}

\* C9: bounded concurrency.  On an executor made with limit K, however many
\* Submit calls are made from however many goroutines, the tasks started and
\* not yet finished never number more than K.
C9_BoundedConcurrency ==
  /\ Cardinality(Holding) <= limit
  /\ Executing \subseteq Holding

\* The limit is reached while a submitter waits.
C9_Witness ==
  /\ limit = MaxLimit
  /\ Cardinality(Executing) = limit
  /\ Blocked # {}

\* C10: permit release on every exit path.  Each task releases exactly one
\* permit when it ends, by return or by panic, and the panic is trapped; so
\* the permits held are as many as the tasks running, a waiting Submit is
\* never left without a running task to free a permit, and in the end every
\* task has run and no permit is held.
C10_PermitReleased ==
  /\ sem = Cardinality(Holding)
  /\ \A w \in Workers :
       /\ released[w] <= 1
       /\ (Running(w) /\ stack[w][1].pc = "recover") => released[w] = 1
       /\ results[w] # <<>> => (released[w] = 1 /\ panicking[w] = Nil)
  /\ Blocked # {} => Holding # {}
  /\ (\A t \in PoolThreads : Finished(t))
       => (sem = 0 /\ \A w \in Workers : results[w] # <<>>)

\* On an executor of limit 1, a task panicked and was logged, and a task
\* submitted after it is running.
C10_Witness ==
  /\ limit = 1
  /\ \E w \in logged, u \in Executing : released[w] = 1 /\ u # w

\* The tasks whose goroutine Submit has started.
Started == {w \in Workers : Running(w) \/ results[w] # <<>>}

\* C11: backpressure.  A Submit call has returned exactly when its task's
\* goroutine has been started, every started task that has not released
\* holds a permit (none waits in a queue), no Submit call returns while the
\* permits held equal the limit, and once every goroutine has ended every
\* Submit call has returned and every task has run.
C11_SubmitInv ==
  /\ \A s \in Submitters, i \in 1 .. TasksEach :
       (WorkerOf(s, i) \in Started) <=> (Len(results[s]) >= i)
  /\ \A w \in Started : released[w] = 0 => w \in Holding
  /\ (\A t \in PoolThreads : Finished(t))
       => /\ \A s \in Submitters : Len(results[s]) = TasksEach
          /\ Started = Workers
C11_Backpressure ==
  /\ []C11_SubmitInv
  /\ [][sem = limit => (Started' = Started /\ \A s \in Submitters : results'[s] = results[s])]_vars

\* With one permit, a task has ended, another holds the permit and a
\* Submit call waits for it.
C11_Witness ==
  /\ limit = 1
  /\ \E w \in Workers : results[w] # <<>>
  /\ Cardinality(Holding) = 1
  /\ Blocked # {}

\* The combinator call of the scenario, and what has become of the futures.
TheComb == script[CombCaller][1]
CombIs(op) == TheComb.op = op /\ TheComb.srcs # <<>>
Failed(f) == state[f] = stateDone /\ err[f] # Nil
Succeeded(f) == state[f] = stateDone /\ err[f] = Nil
Sources == {CombSrcs[i] : i \in 1 .. Len(CombSrcs)}
Quiescent == \A t \in CombThreads : Finished(t)
\* The destination, once Done, keeps what it stores.
DestKeeps == state[CombDest] = stateDone => Stored(CombDest)' = Stored(CombDest)

\* C12: AllOf is fail-fast.  Once a source has failed and every goroutine
\* has run to its end, the destination is failed with a failed source's
\* error even though another source is still pending; a failed destination
\* holds the error of the one callback that claimed the guard, and keeps
\* it; no source is cancelled, and a source nobody completes stays pending.
C12_FailFastInv ==
  CombIs("AllOf") =>
    /\ (Quiescent /\ \E f \in Sources : Failed(f)) => Failed(CombDest)
    /\ Failed(CombDest) =>
         /\ Len(claims[CombDest]) = 1
         /\ LET c == claims[CombDest][1] IN
              /\ Failed(c.src)
              /\ Stored(CombDest) = <<Zero, err[c.src]>>
    /\ \A f \in Sources :
         /\ cancelCalls[f] = 0
         /\ err[f] # ErrCanceled
         /\ script[CompleterOf(f)] = <<>> => state[f] = statePending
C12_AllOfFailFast == []C12_FailFastInv /\ [][DestKeeps]_vars

\* Source 2 has failed, source 1 is still pending, and the destination is
\* failed with source 2's error.
C12_Witness ==
  /\ CombIs("AllOf")
  /\ state[1] = statePending
  /\ Failed(2)
  /\ Stored(CombDest) = <<Zero, SourceErr(2)>>
  /\ state[CombDest] = stateDone

\* C13: AllOf success.  The destination is successfully Done only if every
\* source is successfully Done, it is successfully Done once every source
\* is and every goroutine has run to its end, and AllOf over no sources has
\* returned a destination that is successfully Done.
C13_AllOfSuccess ==
  TheComb.op = "AllOf" =>
    /\ (CombIs("AllOf") /\ Succeeded(CombDest)) => \A f \in Sources : Succeeded(f)
    /\ (CombIs("AllOf") /\ Quiescent /\ \A f \in Sources : Succeeded(f))
         => Succeeded(CombDest)
    /\ (TheComb.srcs = <<>> /\ results[CombCaller] # <<>>)
         => (Succeeded(CombDest) /\ value[CombDest] = Zero)

\* Both sources succeeded and the destination did.
C13_Witness ==
  /\ CombIs("AllOf")
  /\ Quiescent
  /\ \A f \in Sources : Succeeded(f)
  /\ Succeeded(CombDest)
  /\ Len(claims[CombDest]) = 1

\* C14: AnyOf.  At most one callback claims the guard; a Done destination
\* stores the (value, error) of the source whose callback claimed it, and
\* keeps it whatever the other source does; it is Done once a source is
\* and every goroutine has run to its end; AnyOf over no sources has
\* returned a destination that is failed.
C14_AnyOfInv ==
  TheComb.op = "AnyOf" =>
    /\ Len(claims[CombDest]) <= 1
    /\ (CombIs("AnyOf") /\ state[CombDest] = stateDone) =>
         /\ Len(claims[CombDest]) = 1
         /\ LET c == claims[CombDest][1] IN
              /\ state[c.src] = stateDone
              /\ Stored(c.src) = <<c.v, c.e>>
              /\ Stored(CombDest) = <<c.v, c.e>>
    /\ (CombIs("AnyOf") /\ Quiescent /\ \E f \in Sources : state[f] = stateDone)
         => state[CombDest] = stateDone
    /\ (TheComb.srcs = <<>> /\ results[CombCaller] # <<>>)
         => Stored(CombDest) = <<Zero, ErrNoFutures>> /\ state[CombDest] = stateDone
C14_AnyOfSingleWinner == []C14_AnyOfInv /\ [][DestKeeps]_vars

\* One source succeeded, the other failed, and the destination holds the
\* outcome of the one whose callback claimed the guard.
C14_Witness ==
  /\ CombIs("AnyOf")
  /\ Quiescent
  /\ \E f, g \in Sources : Succeeded(f) /\ Failed(g)
  /\ Len(claims[CombDest]) = 1
  /\ Stored(CombDest) = Stored(claims[CombDest][1].src)

\* C15: race-of-any determinism.  The destination of AnyOf, once Done,
\* holds the outcome of the source that became Done earliest.
C15_EarliestWins ==
  (CombIs("AnyOf") /\ state[CombDest] = stateDone)
    => Stored(CombDest) = Stored(doneOrder[1])

\* The same, for an AnyOf call that subscribed to both sources while both
\* were pending.
C15_EarliestWinsSubscribed ==
  (CombIs("AnyOf") /\ state[CombDest] = stateDone
     /\ \A f \in Sources : queued[f] # <<>>)
    => Stored(CombDest) = Stored(doneOrder[1])

\* What dest is to hold when fn ran on v: fn's result, or its trapped panic.
Expected(fn, v) ==
  CASE fn = "add" -> <<v[1] + v[2], Nil>>
    [] fn = "inc" -> <<v + 1, Nil>>
    [] fn = "boom" -> <<Zero, PanicError>>

\* C16: ThenCombine success path.  fn is invoked at most once, only when
\* both sources are successfully Done, and with their two values; with both
\* sources successful and every goroutine at its end it was invoked and the
\* destination holds fn(a, b), or the trapped panic; when a source has
\* failed fn is never invoked and the destination is never successful.
C16_CombineSuccess ==
  TheComb.op = "ThenCombine" =>
    /\ Len(calls[CombDest]) <= 1
    /\ calls[CombDest] # <<>> =>
         /\ \A f \in Sources : Succeeded(f)
         /\ calls[CombDest][1].v = <<value[1], value[2]>>
    /\ (Quiescent /\ \A f \in Sources : Succeeded(f)) =>
         /\ Len(calls[CombDest]) = 1
         /\ state[CombDest] = stateDone
         /\ Stored(CombDest) = Expected(TheComb.cb.fn, <<value[1], value[2]>>)
    /\ Succeeded(CombDest) => calls[CombDest] # <<>>
    /\ (\E f \in Sources : Failed(f)) =>
         (calls[CombDest] = <<>> /\ ~Succeeded(CombDest))

\* Both sources succeeded and the destination holds their sum.
C16_Witness ==
  /\ TheComb.op = "ThenCombine"
  /\ TheComb.cb.fn = "add"
  /\ Quiescent
  /\ Succeeded(CombDest)
  /\ value[CombDest] = value[1] + value[2]
  /\ value[1] # value[2]

\* Nothing more can happen: every goroutine has ended or waits in a Join
\* on a future nobody will complete.
Stuck ==
  \A t \in CombThreads :
    Finished(t) \/ (At(t, {"Join"}, "wait") /\ ~ChanClosed(Top(t)))

\* C17: ThenCombine failure path.  Once a source has failed and nothing
\* more can happen, the destination is failed, whether or not the other
\* source is still pending; and a failed destination holds the error of the
\* source that failed first.
C17_FirstFailureWins ==
  TheComb.op = "ThenCombine" =>
    /\ (Stuck /\ \E f \in Sources : Failed(f)) => Failed(CombDest)
    /\ (Failed(CombDest) /\ \A f \in Sources : Failed(f))
         => err[CombDest] = err[doneOrder[1]]

\* The first half alone: a failure of the second source reaches the
\* destination while the first source is pending.
C17_NoWaitForFirst ==
  (TheComb.op = "ThenCombine" /\ Stuck /\ Failed(2) /\ state[1] = statePending)
    => Failed(CombDest)

\* The second half alone.
C17_EarlierErrorWins ==
  (TheComb.op = "ThenCombine" /\ Failed(CombDest) /\ \A f \in Sources : Failed(f))
    => err[CombDest] = err[doneOrder[1]]

\* C18: ApplyToEither.  At most one callback claims the guard; fn is invoked
\* at most once, and only with the value of the source that claimed it; a
\* Done destination holds that source's error, or fn of its value (or fn's
\* trapped panic), and keeps it whatever the other source does; and it is
\* Done once a source is and every goroutine has run to its end.
C18_EitherInv ==
  TheComb.op = "ApplyToEither" =>
    /\ Len(claims[CombDest]) <= 1
    /\ Len(calls[CombDest]) <= 1
    /\ calls[CombDest] # <<>> =>
         /\ Len(claims[CombDest]) = 1
         /\ claims[CombDest][1].e = Nil
         /\ calls[CombDest][1].v = claims[CombDest][1].v
    /\ state[CombDest] = stateDone =>
         /\ Len(claims[CombDest]) = 1
         /\ LET c == claims[CombDest][1] IN
              /\ Stored(c.src) = <<c.v, c.e>>
              /\ Stored(CombDest) =
                   IF c.e # Nil THEN <<Zero, c.e>> ELSE Expected(TheComb.cb.fn, c.v)
              /\ c.e # Nil => calls[CombDest] = <<>>
    /\ (Quiescent /\ \E f \in Sources : state[f] = stateDone)
         => state[CombDest] = stateDone
C18_EitherSingleWinner == []C18_EitherInv /\ [][DestKeeps]_vars

\* Both sources are Done with different values, and the destination holds
\* fn of the value that claimed the guard.
C18_Witness ==
  /\ TheComb.op = "ApplyToEither"
  /\ TheComb.cb.fn = "inc"
  /\ Quiescent
  /\ Succeeded(1) /\ Succeeded(2) /\ value[1] # value[2]
  /\ Len(calls[CombDest]) = 1
  /\ value[CombDest] = claims[CombDest][1].v + 1

SupplierWon == results[Supplier] # <<>> /\ results[Supplier][1].b
SupplierLost == results[Supplier] # <<>> /\ ~results[Supplier][1].b
\* The timer goroutine called CompleteExceptionally(ErrTimeout), which
\* returned true / false.
TimerTried == results[Timer] # <<>> /\ results[Timer][1].op = "CompleteExceptionally"
TimerWon == TimerTried /\ results[Timer][1].b
TimerLost == TimerTried /\ ~results[Timer][1].b
\* The timer fired while the future was pending, and its goroutine ended.
FiredOnPending == results[Timer] # <<>> /\ results[Timer][1].v = 1
AtRest == \A t \in TimeoutThreads : Finished(t)
TimedOut == state[Cell] = stateDone /\ Stored(Cell) = <<Zero, ErrTimeout>>

\* What holds of OrTimeout whichever way the race goes: at most one of the
\* supplier and the timer completes the future, and the future holds the
\* winner's outcome; a supplier that finds the future timed out gets false.
TimeoutExactlyOnce ==
  /\ ~(SupplierWon /\ TimerWon)
  /\ SupplierWon => (state[Cell] = stateDone /\ Stored(Cell) = Supplied(script[Supplier][1]))
  /\ TimerWon => TimedOut
  /\ (AtRest /\ SupplierLost) => (TimerWon /\ TimedOut)
  /\ (AtRest /\ TimerLost) => SupplierWon
  /\ (results[Timer] # <<>> /\ ~TimerTried) => state[Cell] = stateDone
  /\ (AtRest /\ script[Supplier] = <<>>) => (TimerWon /\ results[Waiter][1].e = ErrTimeout)
  /\ AtRest => <<results[Waiter][1].v, results[Waiter][1].e>> = Stored(Cell)
CellKeeps == state[Cell] = stateDone => Stored(Cell)' = Stored(Cell)

\* C20, as stated: in addition, a future that was pending when the timer
\* fired ends up failed with ErrTimeout.
C20_PendingAtFireTimesOut ==
  /\ TimeoutExactlyOnce
  /\ (AtRest /\ FiredOnPending) => TimedOut

\* C20, amended: timeout race correctness for OrTimeout.  A Done future
\* keeps its outcome and is never turned into ErrTimeout; the timer's
\* CompleteExceptionally(ErrTimeout) wins exactly when no completion has
\* got past its compare-and-swap before it, which a supplier can still do
\* after the timer has fired; the future is completed exactly once, and a
\* Complete that comes after the timeout returns false and leaves
\* ErrTimeout in place.
C20_TimeoutRace ==
  /\ []TimeoutExactlyOnce
  /\ [][CellKeeps]_vars
  /\ [](TimerWon => FiredOnPending)

\* The timer fired on the pending future and failed it with ErrTimeout,
\* the supplier's Complete then returned false, and Join returned
\* ErrTimeout.
C20_Witness ==
  /\ AtRest
  /\ FiredOnPending
  /\ TimerWon
  /\ SupplierLost
  /\ script[Supplier][1].op = "Complete"
  /\ TimedOut
  /\ results[Waiter][1].e = ErrTimeout

\* The timer goroutine of CompleteOnTimeout called Complete, which returned
\* true / false.
DefaultTried == results[Timer] # <<>> /\ results[Timer][1].op = "Complete"
DefaultWon == DefaultTried /\ results[Timer][1].b
DefaultLost == DefaultTried /\ ~results[Timer][1].b
DefaultFiredOnPending == DefaultTried /\ results[Timer][1].e = FiredPending
Defaulted == state[Cell] = stateDone /\ Stored(Cell) = <<DefaultVal, Nil>>

\* What holds of CompleteOnTimeout whichever way the race goes: at most one
\* of the supplier and the timer completes the future, and the future holds
\* the winner's outcome.
DefaultExactlyOnce ==
  /\ ~(SupplierWon /\ DefaultWon)
  /\ SupplierWon => (state[Cell] = stateDone /\ Stored(Cell) = Supplied(script[Supplier][1]))
  /\ DefaultWon => Defaulted
  /\ (AtRest /\ SupplierLost) => (DefaultWon /\ Defaulted)
  /\ (AtRest /\ DefaultLost) => SupplierWon
  /\ (results[Timer] # <<>> /\ ~DefaultTried) => state[Cell] = stateDone
  /\ (AtRest /\ script[Supplier] = <<>>)
       => (DefaultWon /\ results[Waiter][1].v = DefaultVal /\ results[Waiter][1].e = Nil)
  /\ AtRest => <<results[Waiter][1].v, results[Waiter][1].e>> = Stored(Cell)

\* C21, as stated: in addition, a future that was pending when the timer
\* fired ends up Done with the default value and no error.
C21_PendingAtFireGetsDefault ==
  /\ DefaultExactlyOnce
  /\ (AtRest /\ DefaultFiredOnPending) => Defaulted

\* C21, amended: CompleteOnTimeout(v, d) runs the race of OrTimeout with a
\* normal completion.  A Done future keeps its outcome; the timer's
\* Complete(v) wins exactly when no completion has got past its
\* compare-and-swap before it, which a supplier can still do after the timer
\* has fired, and then the future is Done with v and no error.
C21_DefaultRace ==
  /\ []DefaultExactlyOnce
  /\ [][CellKeeps]_vars
  /\ [](DefaultWon => DefaultFiredOnPending)

\* The timer fired on the pending future and completed it with the default
\* value, the supplier's CompleteExceptionally then returned false, and
\* Join returned the default value.
C21_Witness ==
  /\ AtRest
  /\ DefaultFiredOnPending
  /\ DefaultWon
  /\ SupplierLost
  /\ script[Supplier][1].op = "CompleteExceptionally"
  /\ Defaulted
  /\ results[Waiter][1].v = DefaultVal

\* Cancel calls that have returned true.
Cancelled == {t \in ReturnedTrue : TheCall(t).op = "Cancel"}

\* C22: every Cancel call that returns true leaves the future Done with
\* error ErrCanceled and the future's own cancellation token cancelled,
\* whether the future has a cancel function (NewWithContext under a
\* cancellable parent) or not (New, SupplyAsync).
C22_CancelSignalsToken ==
  \A t \in Cancelled :
    /\ state[Cell] = stateDone
    /\ Stored(Cell) = <<Zero, ErrCanceled>>
    /\ ctxCancelled[Cell]

\* The part of C22 that holds of every future: the cancellation is recorded,
\* and the token is signalled exactly when the future has a cancel function.
C22_CancelRecords ==
  \A t \in Cancelled :
    /\ state[Cell] = stateDone
    /\ Stored(Cell) = <<Zero, ErrCanceled>>
    /\ ctxCancelled[Cell] <=> hasCancel[Cell]

\* The owner's Cancel has returned true; the supplier is running; the task
\* is about to make its final Complete or CompleteExceptionally call.
CancelWon ==
  \E i \in 1 .. Len(results[Owner]) :
    results[Owner][i].op = "Cancel" /\ results[Owner][i].b
SupplierRunning == At(CancelWorker, {"invoke"}, "running")
TaskCompleting == At(CancelWorker, {"Complete", "CompleteExceptionally"}, "cas")
StaysCancelled == state[Cell] = stateDone /\ Stored(Cell) = <<Zero, ErrCanceled>>

\* Once Cancel has returned true the outcome is ErrCanceled, and that is
\* what the owner's Join returns.
C23_CancelSticks ==
  CancelWon
    => /\ StaysCancelled
       /\ \A i \in 1 .. Len(results[Owner]) :
            results[Owner][i].op = "Join"
              => <<results[Owner][i].v, results[Owner][i].e>> = <<Zero, ErrCanceled>>

\* A running supplier's next step is its own return, into the task's final
\* completion call; after a successful Cancel that call returns at its
\* compare-and-swap, false, and changes nothing.
C23_SupplierStep ==
  /\ (SupplierRunning /\ stack'[CancelWorker] # stack[CancelWorker]) => TaskCompleting'
  /\ (CancelWon /\ TaskCompleting /\ stack'[CancelWorker] # stack[CancelWorker])
       => /\ Len(stack'[CancelWorker]) < Len(stack[CancelWorker])
          /\ UNCHANGED <<state, value, err>>

\* C23: cancellation is cooperative.  After Cancel has succeeded on a
\* future whose supplier is running, the supplier is not interrupted and
\* the task runs to its end, its final Complete or CompleteExceptionally
\* returns false, and the outcome is ErrCanceled in every later state.
C23_Cooperative ==
  /\ []C23_CancelSticks
  /\ [][C23_SupplierStep]_vars
  /\ (CancelWon /\ SupplierRunning)
       ~> (Finished(CancelWorker) /\ released[CancelWorker] = 1 /\ StaysCancelled)

\* Cancel has returned true while the supplier is still running.
C23_Witness ==
  /\ CancelWon
  /\ SupplierRunning
  /\ StaysCancelled
  /\ calls[CancelWorker] # <<>>

\* The context given to SupplyAsyncCtx is cancelled; the owner never calls
\* Cancel; every goroutine of the scenario has run to its end.
CtxDone == ctxErr[Cell] = ErrCtxCanceled
OwnerOnlyJoins == Len(script[Owner]) = 2
CancelAtRest == \A t \in CancelThreads : Finished(t)
JoinGotCtxError ==
  /\ Stored(Cell) = <<Zero, ErrCtxCanceled>>
  /\ results[Owner][2].op = "Join"
  /\ <<results[Owner][2].v, results[Owner][2].e>> = <<Zero, ErrCtxCanceled>>

\* C24: when the context passed to SupplyAsyncCtx is cancelled while the
\* supplier is already running, the future ends with the context's error,
\* and Join returns "context canceled" instead of the supplier's value.
C24_CtxCancelWhileRunning ==
  []((OwnerOnlyJoins /\ CtxDone /\ SupplierRunning)
       => [](CancelAtRest => JoinGotCtxError))

\* What the task does with the context: it looks at it once, before the
\* supplier starts, so the future ends with the context's error exactly
\* when the supplier was never called.
C24_CtxCheckedBeforeStart ==
  (OwnerOnlyJoins /\ CancelAtRest)
    => (JoinGotCtxError <=> calls[CancelWorker] = <<>>)

\* The ObtrudeValue calls that have returned, no other goroutine making an
\* Obtrude call.
Obtruded ==
  {t \in Threads : /\ TheCall(t).op = "ObtrudeValue"
                   /\ results[t] # <<>>
                   /\ \A u \in Threads \ {t} : TheCall(u).op \notin ObtrudeOps}

\* C25: forced overwrite.  Once ObtrudeValue(v) has returned, whatever the
\* state it found and whatever Complete, CompleteExceptionally or Cancel was
\* under way, the future is Done and (no other Obtrude call being made) its
\* outcome, as GetNow, Join and ResultNow read it, is v with no error.
C25_ForcedOverwrite ==
  \A t \in Obtruded :
    /\ state[Cell] = stateDone
    /\ Stored(Cell) = <<TheCall(t).v, Nil>>

\* The same, looked at only once every call has returned.
C25_ForcedOverwriteAtRest ==
  (\A t \in Threads : Finished(t)) => C25_ForcedOverwrite

\* The part that holds: the future is Done once ObtrudeValue has returned.
C25_ForcedDone ==
  \A t \in Obtruded : state[Cell] = stateDone

\* The pipeline's step i, the future it reads and the one it makes; the
\* outcome the source was completed with; the (value, error) pairs step
\* i's user function was invoked with, in order.
PipeStep(i) == script[1][i]
PipeFrom(i) == PipeStep(i).f
PipeTo(i) == PipeStep(i).cb.dest
PipeFn(i) == PipeStep(i).cb.fn
PipeSupplied == Supplied(script[2][1])
PipeAtRest == \A t \in PipeThreads : Finished(t)
Invocations(i) ==
  [k \in 1 .. Len(calls[PipeTo(i)]) |-> <<calls[PipeTo(i)][k].v, calls[PipeTo(i)][k].e>>]

\* Step i, whose source ended with o, has completed its destination with
\* outcome out after invoking its function as in inv; it never invokes the
\* function twice, and has completed the destination once all is at rest.
StepDid(i, out, inv) ==
  /\ Len(calls[PipeTo(i)]) <= 1
  /\ state[PipeTo(i)] = stateDone
       => /\ state[PipeFrom(i)] = stateDone
          /\ Stored(PipeTo(i)) = out
          /\ Invocations(i) = inv
  /\ PipeAtRest => state[PipeTo(i)] = stateDone

\* What ThenApply(fn) makes of a source outcome o.
ApplyOf(fn, o) ==
  IF o[2] # Nil THEN <<Zero, o[2]>>
  ELSE IF fn = "boom" THEN <<Zero, "panic: boom">>
  ELSE <<o[1] + 1, Nil>>

\* C26: ThenApply.  A failed source fails the destination with the same
\* error and fn is never invoked; a source that succeeded with v has fn
\* invoked exactly once, on v, and the destination completed with fn(v), or
\* with the trapped panic's error; two ThenApply steps in a row yield the
\* composition of their functions.
C26_ThenApply ==
  /\ \A i \in {1, 2} :
       PipeStep(i).op = "ThenApply"
         => StepDid(i, ApplyOf(PipeFn(i), Stored(PipeFrom(i))),
                    IF err[PipeFrom(i)] # Nil THEN <<>> ELSE <<Stored(PipeFrom(i))>>)
  /\ (PipeStep(1).op = "ThenApply" /\ PipeStep(2).op = "ThenApply"
        /\ state[PipeEnd] = stateDone)
       => Stored(PipeEnd) = ApplyOf(PipeFn(2), ApplyOf(PipeFn(1), PipeSupplied))

\* inc after inc on a source completed with 1 gave 3, each function invoked
\* once; the second step was registered before the source completed.
C26_Witness ==
  /\ PipeAtRest
  /\ PipeStep(1).op = "ThenApply" /\ PipeFn(1) = "inc"
  /\ PipeStep(2).op = "ThenApply" /\ PipeFn(2) = "inc"
  /\ PipeSupplied = <<1, Nil>>
  /\ Stored(PipeEnd) = <<3, Nil>>
  /\ Invocations(1) = << <<1, Nil>> >>
  /\ Invocations(2) = << <<2, Nil>> >>
  /\ queued[PipeMid] # <<>>

\* What Exceptionally(fn) makes of a source outcome o.
ExceptionallyOf(fn, o) ==
  IF o[2] = Nil THEN o
  ELSE CASE fn = "fallback" -> <<IF o[2] = ErrCanceled THEN 1 ELSE 2, Nil>>
         [] fn = "refail" -> <<Zero, ErrForced>>
         [] fn = "boom" -> <<Zero, "panic in Exceptionally: boom">>

\* C28: Exceptionally.  A source that succeeded completes the destination
\* with its value and the handler is not invoked; a source that failed has
\* the handler invoked exactly once, on its error, and the destination
\* completed with the handler's value if the handler's error is nil, failed
\* with the handler's error if it is not, and failed with the trapped
\* panic's error if the handler panics.
C28_Exceptionally ==
  \A i \in {1, 2} :
    PipeStep(i).op = "Exceptionally"
      => StepDid(i, ExceptionallyOf(PipeFn(i), Stored(PipeFrom(i))),
                 IF err[PipeFrom(i)] = Nil THEN <<>> ELSE <<Stored(PipeFrom(i))>>)

\* The source failed; the first handler turned the error into another
\* error, the second turned that one into a value, each invoked once.
C28_Witness ==
  /\ PipeAtRest
  /\ PipeStep(1).op = "Exceptionally" /\ PipeFn(1) = "refail"
  /\ PipeStep(2).op = "Exceptionally" /\ PipeFn(2) = "fallback"
  /\ PipeSupplied = <<Zero, ErrUser>>
  /\ Stored(PipeMid) = <<Zero, ErrForced>>
  /\ Stored(PipeEnd) = <<2, Nil>>
  /\ Invocations(1) = << <<Zero, ErrUser>> >>
  /\ Invocations(2) = << <<Zero, ErrForced>> >>

\* What Handle(fn) makes of a source outcome o.
HandleOf(fn, o) ==
  IF fn = "boom" THEN <<Zero, "panic in Handle: boom">>
  ELSE IF o[2] = Nil THEN <<o[1] + 1, Nil>>
  ELSE <<IF o[2] = ErrCanceled THEN 1 ELSE 2, Nil>>

\* C30: Handle.  The handler is invoked exactly once, with the source's
\* (value, error), whether the source succeeded or failed; the destination
\* completes normally with what the handler returns, and fails, with the
\* trapped panic's error, only if the handler panics.
C30_Handle ==
  \A i \in {1, 2} :
    PipeStep(i).op = "Handle"
      => /\ StepDid(i, HandleOf(PipeFn(i), Stored(PipeFrom(i))), <<Stored(PipeFrom(i))>>)
         /\ (state[PipeTo(i)] = stateDone /\ PipeFn(i) # "boom") => err[PipeTo(i)] = Nil

\* The source was cancelled; the first handler folded the error into a
\* value, the second panicked on that value and failed the end.
C30_Witness ==
  /\ PipeAtRest
  /\ PipeStep(1).op = "Handle" /\ PipeFn(1) = "fold"
  /\ PipeStep(2).op = "Handle" /\ PipeFn(2) = "boom"
  /\ PipeSupplied = <<Zero, ErrCanceled>>
  /\ Stored(PipeMid) = <<1, Nil>>
  /\ Stored(PipeEnd) = <<Zero, "panic in Handle: boom">>
  /\ Invocations(1) = << <<Zero, ErrCanceled>> >>
  /\ Invocations(2) = << <<1, Nil>> >>

\* The chain scenario's operator and function, the outcome both sources are
\* completed with and the one both returned futures are completed with;
\* the (value, error) pairs the function of destination d was invoked with.
ChainOp == script[1][2].op
ChainFn == script[1][2].cb.fn
ChainSupplied == Supplied(script[1][1])
RelaySupplied == Supplied(script[2][1])
ChainSides == {<<SrcA, DestA, RelayA>>, <<SrcB, DestB, RelayB>>}
InvokedWith(d) == [k \in 1 .. Len(calls[d]) |-> <<calls[d][k].v, calls[d][k].e>>]

\* What ThenCompose(fn) makes of a source outcome o when the future fn
\* returns ends with r.
ComposeOf(fn, o, r) ==
  IF o[2] # Nil THEN <<Zero, o[2]>>
  ELSE CASE fn = "boom" -> <<Zero, "panic in ThenCompose: boom">>
         [] fn = "nilrelay" -> <<Zero, ErrNilFunction>>
         [] fn = "relay" -> r

\* C27: ThenCompose.  A failed source fails the destination with its error
\* and fn is not invoked; on success fn is invoked once and the destination
\* takes the outcome, value or error, of the future fn returns, be that
\* future Done already or completed later; a nil future fails the
\* destination with ErrNilFunction, a panic of fn fails it.
C27_ThenCompose ==
  ChainOp = "ThenCompose"
    => \A side \in ChainSides :
         /\ Len(calls[side[2]]) <= 1
         /\ state[side[2]] = stateDone
              => /\ state[side[1]] = stateDone
                 /\ Stored(side[2]) = ComposeOf(ChainFn, ChainSupplied, RelaySupplied)
                 /\ InvokedWith(side[2]) =
                      IF ChainSupplied[2] # Nil THEN <<>> ELSE <<ChainSupplied>>
                 /\ (ChainSupplied[2] = Nil /\ ChainFn = "relay")
                      => state[side[3]] = stateDone
                 /\ (ChainSupplied[2] = Nil /\ ChainFn = "boom") => err[side[2]] # Nil
         /\ ChainSettled => state[side[2]] = stateDone

\* Both destinations took the error the returned futures failed with: on
\* side A the returned future was still pending when fn returned it, on
\* side B it was Done.
C27_Witness ==
  /\ ChainSettled
  /\ ChainOp = "ThenCompose" /\ ChainFn = "relay"
  /\ ChainSupplied = <<1, Nil>>
  /\ RelaySupplied = <<Zero, ErrUser>>
  /\ Stored(DestA) = <<Zero, ErrUser>>
  /\ Stored(DestB) = <<Zero, ErrUser>>
  /\ queued[RelayA] # <<>>
  /\ queued[RelayB] = <<>>

\* C29: WhenComplete cannot change the outcome.  Whatever the observer
\* does, panicking included, it is invoked exactly once, with the source's
\* outcome, and the destination is completed with exactly that outcome.
C29_WhenComplete ==
  ChainOp = "WhenComplete"
    => \A side \in ChainSides :
         /\ Len(calls[side[2]]) <= 1
         /\ state[side[2]] = stateDone
              => /\ state[side[1]] = stateDone
                 /\ Stored(side[2]) = ChainSupplied
                 /\ Stored(side[2]) = Stored(side[1])
                 /\ InvokedWith(side[2]) = <<ChainSupplied>>
         /\ ChainSettled => state[side[2]] = stateDone

\* The observer panicked on a source completed with a value, on the fast
\* path and on the queued one, and both destinations hold that value.
C29_Witness ==
  /\ ChainSettled
  /\ ChainOp = "WhenComplete" /\ ChainFn = "boom"
  /\ ChainSupplied = <<NumVals, Nil>>
  /\ Stored(DestA) = <<NumVals, Nil>>
  /\ Stored(DestB) = <<NumVals, Nil>>
  /\ InvokedWith(DestA) = << <<NumVals, Nil>> >>
  /\ InvokedWith(DestB) = << <<NumVals, Nil>> >>

\* The goroutines of the waiting scenario whose program is the one call op,
\* and whether any program forces an outcome.
Doing(op) == {t \in WaitThreads : script[t][1].op = op /\ Len(script[t]) = 1}
WaitAtRest == \A t \in WaitThreads : Finished(t)
Forcing == {t \in WaitThreads : \E i \in 1 .. Len(script[t]) : script[t][i].op \in ObtrudeOps}
GetCtxIsDone == ctxErr[GetCtx] = ErrCtxCanceled
GotOutcome(t) == results[t] # <<>> /\ results[t][1].b
GotCtxError(t) == results[t] # <<>> /\ ~results[t][1].b

\* What a Get that has returned has returned: the future's outcome, the
\* future being Done, or the zero value and the error of a context that is
\* done.
C31_GetReturns ==
  \A t \in Doing("Get") :
    /\ GotOutcome(t)
         => /\ state[Cell] = stateDone
            /\ Forcing = {} => <<results[t][1].v, results[t][1].e>> = Stored(Cell)
    /\ GotCtxError(t)
         => /\ GetCtxIsDone
            /\ <<results[t][1].v, results[t][1].e>> = <<Zero, ErrCtxCanceled>>

\* A step of Get changes nothing of the future but, possibly, its wait
\* channel; on a Done future its first step returns the stored outcome; at
\* its select, if only one of the two cases is ready, that case is taken.
C31_GetStep ==
  \A t \in Doing("Get") :
    (Running(t) /\ stack'[t] # stack[t])
      => /\ UNCHANGED <<state, value, err, cb0, cbs, fired, calls>>
         /\ (At(t, {"Get"}, "load") /\ state[Cell] = stateDone)
              => (GotOutcome(t))' /\ <<results'[t][1].v, results'[t][1].e>> = Stored(Cell)
         /\ (At(t, {"Get"}, "wait") /\ ~ChanClosed(Top(t))) => (GotCtxError(t))'
         /\ (At(t, {"Get"}, "wait") /\ ~GetCtxIsDone) => At(t, {"Get"}, "read")'

\* C31, amended: Get(ctx) races the context against completion without
\* touching the future.  It returns the outcome only of a Done future and
\* ctx.Err() only of a done context; on a future Done at its first look it
\* returns the outcome whatever the context; when it waits, it takes
\* whichever of the two is ready, and either when both are.
C31_GetRace ==
  /\ []C31_GetReturns
  /\ [][C31_GetStep]_vars

\* C31, as stated: in addition, the one that happened first decides: no Get
\* running while the future is Done and the context is not returns the
\* context's error, and no Get running while the context is done and the
\* future is not returns an outcome.
C31_FirstDecides ==
  /\ []C31_GetReturns
  /\ \A t \in WaitThreads :
       /\ []((t \in Doing("Get") /\ Running(t) /\ state[Cell] = stateDone /\ ~GetCtxIsDone)
               => [](~GotCtxError(t)))
       /\ []((t \in Doing("Get") /\ Running(t) /\ state[Cell] # stateDone /\ GetCtxIsDone)
               => [](~GotOutcome(t)))

\* Get has returned the context's error and the future is still Pending
\* with its continuation queued.
C31_Witness ==
  \E t \in Doing("Get") :
    /\ GotCtxError(t)
    /\ state[Cell] = statePending
    /\ cb0[Cell] # NoCb
    /\ queued[Cell] # <<>>

\* An accessor call has returned, or has panicked with msg.
HasReturned(t) == results[t] # <<>> /\ results[t][1].b
HasPanicked(t, msg) == results[t] # <<>> /\ ~results[t][1].b /\ results[t][1].e = msg
Answer(t) == <<results[t][1].v, results[t][1].e>>
Accessors == Doing("ResultNow") \cup Doing("ExceptionNow") \cup Doing("GetNow")

\* What the accessors have answered.  Where a forced overwrite can run
\* between an accessor's reads the answer is compared with nothing.
C32_Answers ==
  /\ \A t \in Doing("ResultNow") :
       /\ HasReturned(t)
            => /\ state[Cell] = stateDone
               /\ results[t][1].e = Nil
               /\ Forcing = {} => Stored(Cell) = Answer(t)
       /\ (results[t] # <<>> /\ ~HasReturned(t))
            => \/ HasPanicked(t, "Future not completed")
               \/ /\ state[Cell] = stateDone
                  /\ Forcing = {}
                       => /\ err[Cell] # Nil
                          /\ HasPanicked(t, "Future completed exceptionally: " \o err[Cell])
  /\ \A t \in Doing("ExceptionNow") :
       /\ HasReturned(t)
            => /\ state[Cell] = stateDone
               /\ Forcing = {} => (err[Cell] # Nil /\ Answer(t) = <<Zero, err[Cell]>>)
       /\ (results[t] # <<>> /\ ~HasReturned(t))
            => \/ HasPanicked(t, "Future not completed")
               \/ /\ HasPanicked(t, "Future completed normally")
                  /\ state[Cell] = stateDone
                  /\ Forcing = {} => err[Cell] = Nil
  /\ \A t \in Doing("GetNow") :
       results[t] # <<>>
         => /\ HasReturned(t)
            /\ \/ Answer(t) = <<Absent, Nil>>
               \/ /\ state[Cell] = stateDone
                  /\ Forcing = {} => Stored(Cell) = Answer(t)

\* A step of an accessor changes nothing; its look at a future that is not
\* Done ends the call, with the panic or with the default and no error, and
\* no call ends that way on a Done future.
C32_AccessStep ==
  \A t \in Accessors :
    (Running(t) /\ stack'[t] # stack[t])
      => /\ UNCHANGED <<cellVars, ghostVars>>
         /\ (Top(t).pc = "load" /\ state[Cell] # stateDone)
              => IF Top(t).op = "GetNow"
                   THEN HasReturned(t)' /\ Answer(t)' = <<Absent, Nil>>
                   ELSE HasPanicked(t, "Future not completed")'
         /\ state[Cell] = stateDone
              => /\ ~HasPanicked(t, "Future not completed")'
                 /\ (Top(t).op = "GetNow" /\ Forcing = {} /\ results'[t] # <<>>)
                      => Answer(t)' = Stored(Cell)

\* C32: ResultNow returns the value only of a future Done without error and
\* panics otherwise; ExceptionNow returns the error only of a future Done
\* with one and panics otherwise; GetNow never panics and gives the default
\* and no error for a future that is not Done; none changes the future.
C32_StateMismatch ==
  /\ []C32_Answers
  /\ [][C32_AccessStep]_vars

\* The future was failed: ResultNow panicked with the error's text,
\* ExceptionNow returned the error.
C32_Witness ==
  /\ WaitAtRest
  /\ Doing("CompleteExceptionally") # {}
  /\ \E t \in Doing("ResultNow") :
       HasPanicked(t, "Future completed exceptionally: " \o ErrUser)
  /\ \E t \in Doing("ExceptionNow") :
       HasReturned(t) /\ Answer(t) = <<Zero, ErrUser>>

\* Every continuation queued on the future has been invoked exactly once.
QueuedAllInvoked ==
  \A i \in 1 .. Len(queued[Cell]) : Len(calls[queued[Cell][i]]) = 1
Obtruders == {t \in Threads : TheCall(t).op \in ObtrudeOps}

\* C33: whichever of Complete, CompleteExceptionally, Cancel, ObtrudeValue
\* and ObtrudeException makes the future Done, every continuation queued on
\* it while pending is invoked exactly once: once every goroutine has run
\* to its end, no Done future has a queued continuation that was not
\* invoked.
C33_QueuedAlwaysFire ==
  ((\A t \in Threads : Finished(t)) /\ state[Cell] = stateDone) => QueuedAllInvoked

\* The same of the runs in which no Obtrude call is made.
C33_QueuedFireOnCompletion ==
  ((\A t \in Threads : Finished(t)) /\ state[Cell] = stateDone /\ Obtruders = {})
    => QueuedAllInvoked

\* The goroutines in Join or Get, and those of them waiting on a channel
\* that is not closed.
Waiters == Doing("Join") \cup Doing("Get")
StillWaiting(t) == At(t, WaitOps, "wait") /\ ~ChanClosed(Top(t))
OthersFinished(t) == \A u \in WaitThreads \ {t} : Finished(u)

\* C34: a goroutine blocked in Join or Get is released when the future
\* becomes Done by any means, a forced overwrite included: with the future
\* Done and every other goroutine at its end, no Join or Get is left waiting
\* on an open channel.
C34_BlockedIsReleased ==
  \A t \in Waiters :
    (state[Cell] = stateDone /\ OthersFinished(t)) => ~StillWaiting(t)

\* The same of the runs in which no Obtrude call is made.
C34_ReleasedOnCompletion ==
  Forcing = {} => C34_BlockedIsReleased

\* The pooled scenario at rest, and the goroutines that run as a task of
\* the executor and are inside a Submit call that finds no permit free.
PooledAtRest == \A t \in PooledThreads : Finished(t)
SubmitsFromTask ==
  {t \in PooledThreads :
     /\ At(t, {"Submit"}, "acquire")
     /\ stack[t][1].op = "worker"
     /\ ~CanAcquire(sem, limit)}

\* C35: a continuation dispatched to the bounded executor from one of the
\* executor's own tasks cannot deadlock it, whatever the capacity: as long
\* as some goroutine has not run to its end, some goroutine can take a
\* step, so every Submit returns and every destination becomes Done.
C35_PooledNeverStuck == PooledAtRest \/ ENABLED NextPooled

\* What the executor does guarantee: the only way the scenario stops short
\* is with every permit held by a task that is itself blocked in Submit.
C35_StuckOnlyInNestedSubmit ==
  (~PooledAtRest /\ ~ENABLED NextPooled)
    => /\ sem = limit
       /\ Cardinality(SubmitsFromTask) = limit

\* The goroutine of OrTimeout is in its select, and the supplier's
\* completion call has returned with the future Done.
TimerSelecting == At(Timer, TimerOps, "select")
CompletedBeforeFire == state[Cell] = stateDone /\ Finished(Supplier)

\* C36: the goroutine OrTimeout starts observes completion: with the future
\* Done before the timer fires, its select can leave through the wait
\* channel, whether or not a Join had made that channel before the
\* goroutine started.
C36_WaiterObservesCompletion ==
  (TimerSelecting /\ CompletedBeforeFire) => ChanClosed(Top(Timer))

\* What the select does guarantee: a channel that existed when the
\* goroutine read f.doneChan is seen closed.
C36_ObservesChannelMadeBefore ==
  (TimerSelecting /\ CompletedBeforeFire /\ Top(Timer).ch # Nil)
    => ChanClosed(Top(Timer))

\* The goroutines of the waiting scenario whose completion call won its
\* compare-and-swap: the call is past it, or has returned true.
CasWinners ==
  {t \in WaitThreads :
     \/ Running(t) /\ stack[t][1].op \in CompletionOps /\ stack[t][1].pc # "cas"
     \/ \E i \in 1 .. Len(results[t]) :
          results[t][i].op \in CompletionOps /\ results[t][i].b}

\* The wait channel is closed at most once; what the field holds is never
\* the shared closed channel; at most one call wins the compare-and-swap.
C37_ClosedOnce ==
  /\ \A f \in Futures :
       /\ closes[f] <= 1
       /\ doneChan[f] \in {Nil, "open", "closed"}
       /\ doneChan[f] = "closed" <=> closes[f] = 1
  /\ Cardinality(CasWinners) <= 1

\* A step that closes a channel is the step of the compare-and-swap winner
\* inside finishCompletion, on a channel that was open.
C37_CloseStep ==
  \A f \in Futures :
    closes'[f] # closes[f]
      => /\ doneChan[f] = "open" /\ doneChan'[f] = "closed"
         /\ \E t \in CasWinners :
              /\ At(t, CompletionOps, "lock")
              /\ Top(t).f = f
              /\ stack'[t] # stack[t]

\* C37: the wait signal is readied at most once.  Under every interleaving
\* of Join, Get, Complete, CompleteExceptionally, Cancel and the forced
\* overwrites, a future's wait channel is closed at most once and only by
\* the call that won the compare-and-swap, and the shared closed channel is
\* neither stored in a future nor closed.
C37_ReadiedOnce == []C37_ClosedOnce /\ [][C37_CloseStep]_vars

\* A Join or Get made the channel, a completion call and a forced overwrite
\* raced, and the three goroutines are at rest with the channel closed once.
C37_Witness ==
  /\ WaitAtRest
  /\ closes[Cell] = 1
  /\ Forcing # {}
  /\ Waiters # {}
  /\ \E t \in WaitThreads : results[t] # <<>> /\ results[t][1].op \in CompletionOps

\* No future has a wait channel.
NoWaitChannel == \A f \in Futures : doneChan[f] = Nil

\* C38: the wait channel is allocated only by a Join or Get that finds the
\* future not Done.  Completions, registrations, chaining operators and
\* combinators never allocate it: in a program that calls combinators and
\* completes their sources but never calls Join or Get, no future has a wait
\* channel in any state.
C38_NoChannelUnlessBlockedOn == NoWaitChannel

\* The same of AllOf, AnyOf and ApplyToEither, which subscribe to their
\* sources instead of joining them.
C38_SubscribersAllocateNothing == TheComb.op # "ThenCombine" => NoWaitChannel

\* The goroutines whose program is Complete, then ObtrudeException, then a
\* registration, and whether goroutine t is the only one to complete or
\* force the future.
Overwriters == {t \in WaitThreads : Len(script[t]) = 3}
SoleSettler(t) ==
  \A u \in WaitThreads \ {t} :
    \A i \in 1 .. Len(script[u]) : script[u][i].op \notin CompletionOps \cup ObtrudeOps
InObtrude(t) == Running(t) /\ Top(t).op \in ObtrudeOps

\* A step of a forced overwrite on a Done future invokes no continuation,
\* takes none from the queue, leaves the wait channel and the cancel
\* function alone.
C39_ObtrudeStep ==
  \A t \in WaitThreads :
    (InObtrude(t) /\ stack'[t] # stack[t] /\ state[Cell] = stateDone)
      => /\ calls' = calls /\ fired' = fired /\ queued' = queued
         /\ cb0' = cb0 /\ cbs' = cbs
         /\ doneChan' = doneChan /\ closes' = closes
         /\ cancelCalls' = cancelCalls /\ ctxCancelled' = ctxCancelled
         /\ state'[Cell] = stateDone

\* No continuation is invoked twice, and the continuation registered after
\* the overwrite is invoked with the forced outcome.
C39_LaterSeesForced ==
  /\ \A u \in WaitThreads : Len(calls[u]) <= 1
  /\ \A t \in Overwriters :
       SoleSettler(t)
         => /\ calls[t] # <<>> => calls[t][1] = [t |-> t, v |-> Zero, e |-> ErrForced]
            /\ Finished(t) => Len(calls[t]) = 1 /\ Stored(Cell) = <<Zero, ErrForced>>

\* C39: a forced overwrite of a Done future fires nothing.  It invokes no
\* continuation, does not close the wait channel and does not call the
\* cancel function; only the stored value, error and state change, and a
\* continuation registered afterwards observes the forced outcome.
C39_ForcedFiresNothing == []C39_LaterSeesForced /\ [][C39_ObtrudeStep]_vars

\* A continuation was invoked with the first outcome, the future was then
\* overwritten, and the continuation registered after that got the forced
\* one.
C39_Witness ==
  \E t \in Overwriters : \E u \in WaitThreads \ {t} :
    /\ SoleSettler(t)
    /\ WaitAtRest
    /\ calls[u] = <<[t |-> t, v |-> 1, e |-> Nil]>>
    /\ calls[t] = <<[t |-> t, v |-> Zero, e |-> ErrForced]>>
    /\ closes[Cell] = 1

\* The supplier the owner gave, whether the owner calls Cancel, and whether
\* the supplier was invoked.
GivenSupplier == script[Owner][1].cb.fn
OwnerCancels == \E i \in 1 .. Len(script[Owner]) : script[Owner][i].op = "Cancel"
SupplierInvoked == calls[CancelWorker] # <<>>
TaskStarting == At(CancelWorker, {"invoke"}, "body")
WorkerTop == stack[CancelWorker][Len(stack[CancelWorker])]

\* The step in which the executor's goroutine starts the task: with the
\* context done it does not invoke the supplier and goes on to fail the
\* future with the context's error; else it invokes the supplier.
C40_TaskStartStep ==
  (TaskStarting /\ stack'[CancelWorker] # stack[CancelWorker])
    => IF ctxErr[Cell] # Nil
         THEN /\ calls' = calls
              /\ WorkerTop'.op = "CompleteExceptionally"
              /\ WorkerTop'.f = Cell
              /\ WorkerTop'.e = ErrCtxCanceled
         ELSE /\ Len(calls'[CancelWorker]) = 1
              /\ WorkerTop'.pc = "running"

\* A future that is Done without its supplier invoked and without a Cancel
\* call holds the context's error: it is completed exceptionally and not
\* cancelled.  A nil supplier submits nothing, and the future is failed
\* with ErrNilFunction by the time SupplyAsync returns.
C40_Outcomes ==
  /\ (GivenSupplier # "nil" /\ ~OwnerCancels /\ ~SupplierInvoked /\ state[Cell] = stateDone)
       => /\ Stored(Cell) = <<Zero, ErrCtxCanceled>>
          /\ ~IsCancelled(Cell)
          /\ IsCompletedExceptionally(Cell)
  /\ GivenSupplier = "nil"
       => /\ sem = 0 /\ stack[CancelWorker] = <<>> /\ ~SupplierInvoked
          /\ results[Owner] # <<>>
               => /\ results[Owner][1].b
                  /\ state[Cell] = stateDone
                  /\ Stored(Cell) = <<Zero, ErrNilFunction>>
                  /\ IsCompletedExceptionally(Cell)

\* C40: the context given to SupplyAsyncCtx is checked when the executor
\* starts the task: if it is already cancelled the supplier is never
\* invoked and the future is completed exceptionally with ctx.Err(), so
\* IsCancelled is false and IsCompletedExceptionally is true; a nil
\* supplier yields a future already failed with ErrNilFunction, and
\* nothing is submitted.
C40_PreStartCheck == []C40_Outcomes /\ [][C40_TaskStartStep]_vars

\* The outsider cancelled the context before the task started; everything
\* is at rest, the supplier was not invoked and the Join returned the
\* context's error.
C40_Witness ==
  /\ \A t \in CancelThreads : Finished(t)
  /\ GivenSupplier = "one"
  /\ ~OwnerCancels
  /\ ~SupplierInvoked
  /\ released[CancelWorker] = 1
  /\ results[Owner][2] = Result("Join", Cell, TRUE, Zero, ErrCtxCanceled)

====
